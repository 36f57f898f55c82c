------------------------ MODULE SessionArtifactsProofs ------------------------
(***************************************************************************)
(* Proofs about SessionArtifacts, for every number of sessions, every      *)
(* setting of the clean-up and every bound on stops and rows.              *)
(*                                                                         *)
(* There are three copies of the truth: the call's manifest, the one on    *)
(* disk and the CSV.  The invariant says in what they may differ at each   *)
(* step of a call: the two manifests count the same sessions as completed, *)
(* until the folder of a finished run is removed, and what either counts   *)
(* as included is in the CSV.  It is kept because a session counted as     *)
(* included is completed, hence never unzipped again, except in the one    *)
(* step between its rows and its completion.                               *)
(***************************************************************************)
EXTENDS SessionArtifacts, SequenceTheorems, TLAPS

\* The steps that work on the session the call is at.
Busy == {"list", "download", "extract", "unzip", "process", "append"}

Typed == /\ pc \in {"idle", "session", "complete", "summary"} \cup Busy
         /\ at \in 1 .. NSessions + 1 /\ stops \in 0 .. MaxStops
         /\ url \in Sessions \cup {Nothing}
         /\ manifest \in Manifests \cup {Nothing} /\ disk \in Manifests \cup {Nothing}
         /\ zip \in [Sessions -> Zips \cup {Nothing}]
         /\ files \in [Sessions -> Zips \cup {Nothing}]
         /\ csv \in Seq(Sessions)
         /\ verdict \in {"nothing", "success", "partial", "error", "raised"}

\* The sessions a manifest counts as completed.
Done(m) == {s \in Sessions : m # Nothing /\ m.sessions[s].status = "completed"}

\* The sessions before the one the call is at are settled.
Settled(m, n) == \A s \in Sessions : s < n => m.sessions[s].status \in {"completed", "failed"}

Position == pc # "idle" => /\ manifest \in Manifests
                           /\ Settled(manifest, at)
                           /\ pc \in Busy \cup {"complete"} => at \in Sessions \ Done(manifest)
                           /\ pc = "summary" => at = NSessions + 1

Forgotten == pc = "summary" /\ disk = Nothing /\ Done(manifest) = Sessions

\* The copy on disk lags behind in no session's completion.
Recorded == pc # "idle" => Done(disk) = Done(manifest) \/ Forgotten

InFile(m) == \A s \in ToSet(m.included) : files[s] # Nothing => files[s].of \in ToSet(csv)

\* The session whose rows are in the file and that is not completed yet.
Appending == IF pc = "complete" THEN {at} ELSE {}

Counted == /\ disk # Nothing => InFile(disk) /\ ToSet(disk.included) \subseteq Done(disk)
           /\ pc # "idle" =>
                 /\ InFile(manifest)
                 /\ ToSet(manifest.included) \subseteq Done(manifest) \cup Appending
                 /\ disk # Nothing => ToSet(disk.included) \subseteq ToSet(manifest.included)

IInv == Typed /\ Position /\ Recorded /\ Counted

-----------------------------------------------------------------------------
(* Sequences as sets.                                                      *)

LEMMA AppendedSet ==
    ASSUME NEW seq \in Seq(Sessions), NEW s \in Sessions
    PROVE  /\ Append(seq, s) \in Seq(Sessions)
           /\ ToSet(Append(seq, s)) = ToSet(seq) \cup {s}
           /\ <<s>> \in Seq(Sessions) /\ ToSet(<<s>>) = {s}
           /\ ToSet(<<>>) = {}
<1>1. /\ Append(seq, s) \in Seq(Sessions)
      /\ Len(Append(seq, s)) = Len(seq) + 1
      /\ \A i \in 1..Len(seq) : Append(seq, s)[i] = seq[i]
      /\ Append(seq, s)[Len(seq) + 1] = s
      /\ Len(seq) \in Nat
  BY AppendProperties, LenProperties
<1>2. /\ DOMAIN seq = 1..Len(seq)
      /\ DOMAIN Append(seq, s) = 1..Len(seq) \cup {Len(seq) + 1}
  BY <1>1, LenProperties
<1>3. ToSet(Append(seq, s)) = ToSet(seq) \cup {s}
  BY <1>1, <1>2 DEF ToSet
<1>4. <<s>> \in Seq(Sessions) /\ DOMAIN <<s>> = {1} /\ <<s>>[1] = s
  OBVIOUS
<1>5. ToSet(<<s>>) = {s}
  BY <1>4 DEF ToSet
<1>6. ToSet(<<>>) = {}
  BY DEF ToSet
<1> QED
  BY <1>1, <1>3, <1>4, <1>5, <1>6

(* What a manifest includes are sessions.                                  *)
LEMMA IncludedAreSessions ==
    ASSUME NEW m \in Manifests
    PROVE  m.included \in Seq(Sessions) /\ ToSet(m.included) \subseteq Sessions
<1>1. m.included \in Seq(Sessions)
  BY DEF Manifests
<1>2. ToSet(m.included) \subseteq Sessions
  BY <1>1, ElementOfSeq, LenProperties DEF ToSet
<1> QED
  BY <1>1, <1>2

(* The call's manifest with a new entry of its session.                    *)
LEMMA WithEntry ==
    ASSUME manifest \in Manifests, at \in Sessions, NEW entry \in Entries
    PROVE  /\ With(entry) \in Manifests
           /\ With(entry).included = manifest.included
           /\ \A s \in Sessions : With(entry).sessions[s] =
                                    IF s = at THEN entry ELSE manifest.sessions[s]
           /\ Done(With(entry)) = IF entry.status = "completed" THEN Done(manifest) \cup {at}
                                  ELSE Done(manifest) \ {at}
<1>1. /\ With(entry) \in Manifests
      /\ With(entry).included = manifest.included
      /\ With(entry).sessions = [manifest.sessions EXCEPT ![at] = entry]
  BY DEF With, Manifests
<1>2. \A s \in Sessions : With(entry).sessions[s] = IF s = at THEN entry ELSE manifest.sessions[s]
  BY <1>1 DEF Manifests
<1>3. With(entry) # Nothing /\ manifest # Nothing
  BY <1>1, NothingAssumption
<1> QED
  BY <1>1, <1>2, <1>3 DEF Done

(* The session the call is at has an entry.                                *)
LEMMA EntryType == ASSUME manifest \in Manifests, at \in Sessions PROVE Entry \in Entries
BY DEF Entry, Manifests

-----------------------------------------------------------------------------
(* The steps of a call.                                                    *)

\* The call is working on a session that is not completed.
Working == pc \in Busy \cup {"session"} /\ at \in Sessions \ Done(manifest)

(* A step that gives the session a new entry, short of completing it, and  *)
(* touches the files of no other session and no row that counts.           *)
LEMMA WorkInvariant ==
    ASSUME IInv, Working, NEW entry \in Entries, entry.status # "completed",
           manifest' = With(entry), disk' \in {disk, manifest'},
           \/ pc' \in Busy /\ at' = at
           \/ pc' = "session" /\ at' = at + 1 /\ entry.status = "failed",
           url' \in Sessions \cup {Nothing},
           zip' \in [Sessions -> Zips \cup {Nothing}],
           files' \in [Sessions -> Zips \cup {Nothing}],
           \A s \in Sessions : s # at => files'[s] = files[s],
           csv' \in Seq(Sessions),
           ToSet(csv) \subseteq ToSet(csv') \/ manifest.included = <<>>,
           UNCHANGED <<verdict, stops>>
    PROVE  IInv' /\ Done(disk') = Done(disk)
<1> USE NSessionsAssumption DEF IInv
<1>1. /\ pc # "idle" /\ pc # "summary" /\ pc # "complete"
      /\ at \in Sessions /\ at \notin Done(manifest)
      /\ manifest \in Manifests
  BY DEF Working, Busy, Position
<1>2. /\ manifest' \in Manifests
      /\ manifest'.included = manifest.included
      /\ \A s \in Sessions : manifest'.sessions[s] =
                               IF s = at THEN entry ELSE manifest.sessions[s]
      /\ Done(manifest') = Done(manifest)
  BY <1>1, WithEntry, ZenonT(40)
<1>3. Done(disk) = Done(manifest)
  BY <1>1 DEF Recorded, Forgotten
<1>4. /\ pc' # "idle" /\ pc' # "summary" /\ pc' # "complete"
      /\ at' \in 1 .. NSessions + 1
      /\ pc' \in Busy => at' = at
  BY <1>1 DEF Busy, Sessions
<1>5. Typed'
  <2>1. disk' \in Manifests \cup {Nothing}
    BY <1>2 DEF Typed
  <2> QED
    BY <1>2, <1>4, <2>1 DEF Typed
<1>6. Position'
  <2>1. Settled(manifest, at)
    BY <1>1 DEF Position
  <2>2. Settled(manifest', at')
    <3>1. CASE at' = at
      <4>1. \A s \in Sessions : s < at => s # at
        BY <1>1 DEF Sessions
      <4> QED
        BY <1>2, <2>1, <3>1, <4>1 DEF Settled
    <3>2. CASE at' = at + 1 /\ entry.status = "failed"
      <4>1. \A s \in Sessions : s < at + 1 => s = at \/ (s < at /\ s # at)
        BY <1>1 DEF Sessions
      <4> QED
        BY <1>1, <1>2, <2>1, <3>2, <4>1 DEF Settled
    <3> QED
      BY <3>1, <3>2
  <2> QED
    BY <1>1, <1>2, <1>4, <2>2 DEF Position
<1>7. Done(disk') = Done(disk) /\ Done(disk') = Done(manifest')
  BY <1>2, <1>3
<1>8. Recorded'
  BY <1>7 DEF Recorded
<1>9. Counted'
  <2>1. /\ InFile(manifest)
        /\ ToSet(manifest.included) \subseteq Done(manifest)
        /\ disk # Nothing => ToSet(disk.included) \subseteq ToSet(manifest.included)
    BY <1>1 DEF Counted, Appending
  <2>2. ToSet(manifest.included) \subseteq Sessions
    BY <1>1, IncludedAreSessions
  <2>3. \A s \in ToSet(manifest.included) :
           /\ files'[s] = files[s]
           /\ files[s] # Nothing => files[s].of \in ToSet(csv')
    <3>1. at \notin ToSet(manifest.included)
      BY <1>1, <2>1
    <3>2. manifest.included = <<>> => ToSet(manifest.included) = {}
      BY DEF ToSet
    <3> QED
      BY <2>1, <2>2, <3>1, <3>2 DEF InFile
  <2>4. InFile(manifest)'
    BY <1>2, <2>3 DEF InFile
  <2>5. disk' # Nothing => /\ ToSet(disk'.included) \subseteq ToSet(manifest'.included)
                           /\ ToSet(disk'.included) \subseteq Done(disk')
    BY <1>2, <1>7, <2>1 DEF Counted
  <2>6. disk' # Nothing => InFile(disk)'
    BY <1>2, <2>3, <2>5 DEF InFile
  <2>7. Appending' = {}
    BY <1>4 DEF Appending
  <2> QED
    BY <1>2, <2>1, <2>4, <2>5, <2>6, <2>7 DEF Counted
<1> QED
  BY <1>5, <1>6, <1>7, <1>8, <1>9

(* A step to the next stage of the session.                                *)
LEMMA MoveInvariant ==
    ASSUME IInv, Working, pc' \in Busy, url' \in Sessions \cup {Nothing},
           UNCHANGED <<at, manifest, disk, zip, files, csv, verdict, stops>>
    PROVE  IInv' /\ Done(disk') = Done(disk)
<1>1. pc' \notin {"idle", "complete", "summary"} /\ pc \notin {"idle", "complete", "summary"}
  BY DEF Busy, Working
<1>2. Typed'
  BY DEF IInv, Typed
<1>3. Position' /\ Recorded'
  BY <1>1 DEF IInv, Working, Position, Recorded, Forgotten, Settled, Done
<1>4. Counted'
  BY <1>1 DEF IInv, Counted, Appending, InFile, Done
<1> QED
  BY <1>2, <1>3, <1>4 DEF IInv

(* A stage that fails ends the work on its session, which is then settled. *)
LEMMA FailInvariant ==
    ASSUME IInv, Working, NEW entry \in Entries, Fail(entry),
           csv' \in Seq(Sessions),
           ToSet(csv) \subseteq ToSet(csv') \/ manifest.included = <<>>,
           url' \in Sessions \cup {Nothing},
           UNCHANGED <<zip, files, verdict, stops>>
    PROVE  IInv' /\ Done(disk') = Done(disk)
<1> DEFINE failed == [entry EXCEPT !.status = "failed"]
<1>1. manifest \in Manifests /\ at \in Sessions
  BY DEF Working, IInv, Position, Busy
<1>2. failed \in Entries /\ failed.status = "failed"
  BY DEF Entries, Statuses
<1>3. /\ manifest' = With(failed) /\ disk' = manifest'
      /\ pc' = "session" /\ at' = at + 1
  BY DEF Fail, save_manifest
<1> HIDE DEF failed
<1> QED
  BY <1>2, <1>3, WorkInvariant DEF IInv, Typed

(* Every step of the work on a session keeps the invariant, and neither    *)
(* completes the session on disk nor answers the caller.                   *)
LEMMA StageInvariant ==
    ASSUME IInv, \/ StartDownload \/ List \/ Download \/ StartExtract \/ Unzip
                 \/ StartProcess \/ FailProcess
    PROVE  IInv' /\ Done(disk') = Done(disk) /\ UNCHANGED verdict
<1>1. /\ manifest \in Manifests /\ at \in Sessions
      /\ Working
      /\ Entry \in Entries
  <2>1. pc # "idle" /\ manifest \in Manifests
    BY DEF IInv, Position, StartDownload, List, Download, StartExtract, Unzip, StartProcess,
           FailProcess
  <2>2. CASE pc \in Busy
    BY <2>1, <2>2, EntryType DEF IInv, Position, Working, Entry, Manifests
  <2>3. CASE StartDownload
    BY <2>1, <2>3, NothingAssumption
       DEF StartDownload, Skipped, Working, Done, Entry, Manifests
  <2> QED
    BY <2>2, <2>3 DEF List, Download, StartExtract, Unzip, StartProcess, FailProcess, Busy
<1>2. /\ url \in Sessions \cup {Nothing} /\ csv \in Seq(Sessions)
      /\ zip \in [Sessions -> Zips \cup {Nothing}]
      /\ files \in [Sessions -> Zips \cup {Nothing}]
      /\ at \notin Done(manifest)
      /\ Entry.status # "completed"
  BY <1>1, NothingAssumption DEF IInv, Typed, Working, Done, Entry
<1>3. CASE StartDownload
  <2>1. CASE Entry.download = "completed"
    BY <1>1, <1>2, <1>3, <2>1, MoveInvariant DEF StartDownload, Busy
  <2>2. CASE Entry.download # "completed"
    <3> DEFINE entry == [Entry EXCEPT !.status = "downloading", !.download = "in_progress"]
    <3>1. entry \in Entries /\ entry.status = "downloading"
      BY <1>1 DEF Entries, Statuses, Stages
    <3>2. /\ manifest' = With(entry) /\ disk' = manifest' /\ pc' = "list"
          /\ UNCHANGED <<at, url, zip, files, csv, verdict, stops>>
      BY <1>3, <2>2 DEF StartDownload, save_manifest
    <3> HIDE DEF entry
    <3> QED
      BY <1>1, <1>2, <3>1, <3>2, WorkInvariant DEF Busy
  <2> QED
    BY <2>1, <2>2
<1>4. CASE List
  <2>1. url' \in Sessions \cup {Nothing} /\ UNCHANGED <<zip, files, csv, verdict, stops>>
    BY <1>1, <1>2, <1>4 DEF List
  <2>2. CASE NoZip
    <3>1. [Entry EXCEPT !.download = "failed"] \in Entries
      BY <1>1 DEF Entries, Stages
    <3> QED
      BY <1>1, <1>2, <2>1, <2>2, <3>1, FailInvariant DEF NoZip
  <2>3. CASE pc' = "download" /\ UNCHANGED <<at, manifest, disk>>
    BY <1>1, <2>1, <2>3, MoveInvariant DEF Busy
  <2> QED
    BY <1>4, <2>2, <2>3 DEF List
<1>5. CASE Download
  <2>1. CASE Fail([Entry EXCEPT !.download = "failed"]) /\ UNCHANGED zip
    <3>1. [Entry EXCEPT !.download = "failed"] \in Entries
      BY <1>1 DEF Entries, Stages
    <3> QED
      BY <1>1, <1>2, <1>5, <2>1, <3>1, FailInvariant DEF Download
  <2>2. ASSUME NEW z \in Zips,
               zip' = [zip EXCEPT ![at] = z],
               manifest' = With([Entry EXCEPT !.download = "completed"]),
               pc' = "extract", UNCHANGED <<at, disk>>
        PROVE  IInv' /\ Done(disk') = Done(disk) /\ UNCHANGED verdict
    <3> DEFINE entry == [Entry EXCEPT !.download = "completed"]
    <3>1. entry \in Entries /\ entry.status # "completed"
      BY <1>1, <1>2 DEF Entries, Stages
    <3>2. zip' \in [Sessions -> Zips \cup {Nothing}]
      BY <1>2, <2>2
    <3>3. UNCHANGED <<url, files, csv, verdict, stops>> /\ manifest' = With(entry)
      BY <1>5, <2>2 DEF Download
    <3> HIDE DEF entry
    <3> QED
      BY <1>1, <1>2, <2>2, <3>1, <3>2, <3>3, WorkInvariant DEF Busy
  <2> QED
    BY <1>5, <2>1, <2>2 DEF Download
<1>6. CASE StartExtract
  <2>1. CASE Entry.extract = "completed"
    BY <1>1, <1>2, <1>6, <2>1, MoveInvariant DEF StartExtract, Busy
  <2>2. CASE Entry.extract # "completed"
    <3> DEFINE entry == [Entry EXCEPT !.status = "extracting", !.extract = "in_progress"]
    <3>1. entry \in Entries /\ entry.status = "extracting"
      BY <1>1 DEF Entries, Statuses, Stages
    <3>2. /\ manifest' = With(entry) /\ disk' = manifest' /\ pc' = "unzip"
          /\ UNCHANGED <<at, url, zip, files, csv, verdict, stops>>
      BY <1>6, <2>2 DEF StartExtract, save_manifest
    <3> HIDE DEF entry
    <3> QED
      BY <1>1, <1>2, <3>1, <3>2, WorkInvariant DEF Busy
  <2> QED
    BY <2>1, <2>2
<1>7. CASE Unzip
  <2>1. CASE Fail([Entry EXCEPT !.extract = "failed"]) /\ UNCHANGED files
    <3>1. [Entry EXCEPT !.extract = "failed"] \in Entries
      BY <1>1 DEF Entries, Stages
    <3> QED
      BY <1>1, <1>2, <1>7, <2>1, <3>1, FailInvariant DEF Unzip
  <2>2. CASE /\ files' = [files EXCEPT ![at] = zip[at]]
             /\ manifest' = With([Entry EXCEPT !.extract = "completed"])
             /\ pc' = "process" /\ UNCHANGED <<at, disk>>
    <3> DEFINE entry == [Entry EXCEPT !.extract = "completed"]
    <3>1. entry \in Entries /\ entry.status # "completed"
      BY <1>1, <1>2 DEF Entries, Stages
    <3>2. files' \in [Sessions -> Zips \cup {Nothing}] /\ \A s \in Sessions : s # at => files'[s] = files[s]
      BY <1>1, <1>2, <2>2
    <3>3. UNCHANGED <<url, zip, csv, verdict, stops>> /\ manifest' = With(entry)
      BY <1>7, <2>2 DEF Unzip
    <3> HIDE DEF entry
    <3> QED
      BY <1>1, <1>2, <2>2, <3>1, <3>2, <3>3, WorkInvariant DEF Busy
  <2> QED
    BY <1>7, <2>1, <2>2 DEF Unzip
<1>8. CASE StartProcess
  <2> DEFINE entry == [Entry EXCEPT !.status = "processing", !.process = "in_progress"]
  <2>1. entry \in Entries /\ entry.status = "processing"
    BY <1>1 DEF Entries, Statuses, Stages
  <2>2. /\ manifest' = With(entry) /\ disk' = manifest' /\ pc' = "append"
        /\ UNCHANGED <<at, url, zip, files, csv, verdict, stops>>
    BY <1>8 DEF StartProcess, save_manifest
  <2> HIDE DEF entry
  <2> QED
    BY <1>1, <1>2, <2>1, <2>2, WorkInvariant DEF Busy
<1>9. CASE FailProcess
  <2>1. [Entry EXCEPT !.process = "failed"] \in Entries
    BY <1>1 DEF Entries, Stages
  <2>2. csv' \in Seq(Sessions) /\ (ToSet(csv) \subseteq ToSet(csv') \/ manifest.included = <<>>)
    <3>1. CASE csv' = csv
      BY <1>2, <3>1
    <3>2. CASE /\ HasRows
               /\ csv' = IF is_first(at) THEN <<files[at].of>> ELSE Append(csv, files[at].of)
      <4>1. files[at].of \in Sessions
        BY <1>1, <1>2, <3>2 DEF HasRows, Zips
      <4> QED
        BY <1>2, <3>2, <4>1, AppendedSet DEF is_first
    <3> QED
      BY <1>9, <3>1, <3>2 DEF FailProcess
  <2> QED
    BY <1>1, <1>2, <1>9, <2>1, <2>2, FailInvariant DEF FailProcess
<1> QED
  BY <1>3, <1>4, <1>5, <1>6, <1>7, <1>8, <1>9

(* A call begins with the manifest on disk, or with a new one that counts  *)
(* nothing.                                                                *)
LEMMA BeginInvariant == ASSUME IInv, Begin PROVE IInv' /\ Done(disk') = Done(disk)
<1> USE NSessionsAssumption DEF IInv
<1>1. /\ pc' = "session" /\ at' = 1 /\ verdict' = "nothing"
      /\ url' \in Sessions \cup {Nothing}
      /\ UNCHANGED <<zip, files, csv, stops>>
  BY DEF Begin, Typed
<1>2. /\ manifest' = disk' /\ disk' \in Manifests
      /\ Done(disk') = Done(disk)
      /\ InFile(disk') /\ ToSet(disk'.included) \subseteq Done(disk')
  <2>1. CASE disk = Nothing
    <3>1. manifest' = create_manifest /\ disk' = create_manifest
      BY <2>1 DEF Begin, save_manifest
    <3>2. create_manifest \in Manifests
      <4>1. <<>> \in Seq(Sessions)
        BY EmptySeq
      <4> QED
        BY <4>1 DEF create_manifest, Manifests, Entries, Statuses, Stages
    <3>3. /\ \A s \in Sessions : create_manifest.sessions[s].status = "pending"
          /\ create_manifest.included = <<>>
      BY DEF create_manifest
    <3>4. ToSet(<<>>) = {}
      BY DEF ToSet
    <3> QED
      BY <2>1, <3>1, <3>2, <3>3, <3>4 DEF Done, InFile
  <2>2. CASE disk # Nothing
    <3>1. manifest' = disk /\ disk' = disk
      BY <2>2 DEF Begin
    <3> QED
      BY <2>2, <3>1 DEF Typed, Counted
  <2> QED
    BY <2>1, <2>2
<1>3. Typed'
  BY <1>1, <1>2 DEF Typed
<1>4. Position'
  <2>1. \A s \in Sessions : ~(s < 1)
    BY DEF Sessions
  <2> QED
    BY <1>1, <1>2, <2>1 DEF Position, Settled, Busy
<1>5. Recorded'
  BY <1>2 DEF Recorded
<1>6. Counted'
  BY <1>1, <1>2 DEF Counted, InFile, Appending
<1> QED
  BY <1>2, <1>3, <1>4, <1>5, <1>6

(* A completed session is passed over.                                     *)
LEMMA SkipInvariant == ASSUME IInv, Skip PROVE IInv'
<1> USE NSessionsAssumption DEF IInv
<1>1. /\ pc = "session" /\ pc' = "session" /\ at \in Sessions /\ at' = at + 1
      /\ manifest.sessions[at].status = "completed"
      /\ UNCHANGED <<manifest, url, disk, zip, files, csv, verdict, stops>>
  BY DEF Skip, Skipped, Entry
<1>2. Typed'
  BY <1>1 DEF Typed, Sessions
<1>3. Position'
  <2>1. \A s \in Sessions : s < at + 1 => s = at \/ s < at
    BY <1>1 DEF Sessions
  <2> QED
    BY <1>1, <2>1 DEF Position, Settled, Busy
<1>4. Recorded' /\ Counted'
  BY <1>1 DEF Recorded, Forgotten, Counted, InFile, Done, Appending
<1> QED
  BY <1>2, <1>3, <1>4

(* The rows are appended, and the session joins the included ones; the     *)
(* file is begun afresh only when nothing counts as included.              *)
LEMMA AppendInvariant == ASSUME IInv, AppendRows PROVE IInv'
<1> USE DEF IInv
<1>1. /\ pc = "append" /\ files[at] # Nothing /\ pc' = "complete"
      /\ UNCHANGED <<at, url, disk, zip, files, verdict, stops>>
  BY DEF AppendRows
<1>2. /\ manifest \in Manifests /\ at \in Sessions /\ at \notin Done(manifest)
      /\ Settled(manifest, at)
      /\ Done(disk) = Done(manifest)
      /\ InFile(manifest)
      /\ ToSet(manifest.included) \subseteq Done(manifest)
      /\ disk # Nothing => ToSet(disk.included) \subseteq ToSet(manifest.included)
  BY <1>1 DEF Position, Busy, Recorded, Forgotten, Counted, Appending
<1>3. manifest.included \in Seq(Sessions) /\ csv \in Seq(Sessions)
  BY <1>2 DEF Manifests, Typed
<1>4. ASSUME manifest' \in Manifests, csv' \in Seq(Sessions),
             manifest'.sessions = manifest.sessions,
             ToSet(manifest.included) \subseteq ToSet(manifest'.included),
             ToSet(manifest'.included) \subseteq ToSet(manifest.included) \cup {at},
             ToSet(csv) \subseteq ToSet(csv') \/ ToSet(manifest.included) = {},
             at \in ToSet(manifest'.included) => files[at].of \in ToSet(csv')
      PROVE  IInv'
  <2>1. Done(manifest') = Done(manifest)
    BY <1>2, <1>4, NothingAssumption DEF Done
  <2>2. Typed'
    BY <1>1, <1>4 DEF Typed
  <2>3. Position'
    BY <1>1, <1>2, <1>4, <2>1 DEF Position, Settled
  <2>4. Recorded'
    BY <1>1, <1>2, <2>1 DEF Recorded
  <2>5. InFile(manifest)'
    BY <1>1, <1>2, <1>4 DEF InFile
  <2>6. disk # Nothing => InFile(disk)'
    BY <1>1, <1>2, <1>4, <2>5 DEF InFile
  <2>7. Counted'
    BY <1>1, <1>2, <1>4, <2>1, <2>5, <2>6 DEF Counted, Appending
  <2> QED
    BY <2>2, <2>3, <2>4, <2>7
<1>5. CASE ~HasRows
  <2>1. manifest' = manifest /\ csv' = csv
    BY <1>5 DEF AppendRows
  <2>2. at \notin ToSet(manifest'.included)
    BY <1>2, <2>1
  <2> QED
    BY <1>2, <1>3, <1>4, <2>1, <2>2
<1>6. CASE HasRows
  <2>1. /\ manifest' = [manifest EXCEPT !.included = Append(@, at)]
        /\ csv' = IF manifest.included = <<>> THEN <<files[at].of>> ELSE Append(csv, files[at].of)
    BY <1>6 DEF AppendRows, append_jtl_to_csv, is_first
  <2>2. files[at].of \in Sessions
    BY <1>1, <1>2 DEF Typed, Zips
  <2>3. /\ manifest' \in Manifests /\ manifest'.sessions = manifest.sessions
        /\ ToSet(manifest'.included) = ToSet(manifest.included) \cup {at}
    BY <1>2, <1>3, <2>1, AppendedSet DEF Manifests
  <2>4. /\ csv' \in Seq(Sessions) /\ files[at].of \in ToSet(csv')
        /\ ToSet(csv) \subseteq ToSet(csv') \/ ToSet(manifest.included) = {}
    BY <1>3, <2>1, <2>2, AppendedSet
  <2> QED
    BY <1>4, <2>3, <2>4
<1> QED
  BY <1>5, <1>6

(* Completing a session is told to the disk in the same step.              *)
LEMMA CompleteInvariant ==
    ASSUME IInv, Complete
    PROVE  IInv' /\ at \in Sessions \ Done(disk) /\ Done(disk') = Done(disk) \cup {at}
<1> USE NSessionsAssumption DEF IInv
<1> DEFINE entry == [Entry EXCEPT !.status = "completed", !.process = "completed"]
<1>1. /\ pc = "complete" /\ pc' = "session" /\ at' = at + 1
      /\ manifest' = With(entry) /\ disk' = manifest'
      /\ UNCHANGED <<url, zip, files, csv, verdict, stops>>
  BY DEF Complete, save_manifest
<1>2. /\ manifest \in Manifests /\ at \in Sessions /\ at \notin Done(manifest)
      /\ Settled(manifest, at)
      /\ Done(disk) = Done(manifest)
      /\ InFile(manifest)
      /\ ToSet(manifest.included) \subseteq Done(manifest) \cup {at}
  BY <1>1 DEF Position, Recorded, Forgotten, Counted, Appending
<1>3. entry \in Entries /\ entry.status = "completed"
  BY <1>2, EntryType DEF Entries, Statuses, Stages
<1> HIDE DEF entry
<1>4. /\ manifest' \in Manifests
      /\ manifest'.included = manifest.included
      /\ \A s \in Sessions : manifest'.sessions[s] =
                               IF s = at THEN entry ELSE manifest.sessions[s]
      /\ Done(manifest') = Done(manifest) \cup {at}
  BY <1>1, <1>2, <1>3, WithEntry
<1>5. Typed'
  BY <1>1, <1>2, <1>4 DEF Typed, Sessions
<1>6. Position'
  <2>1. \A s \in Sessions : s < at + 1 => s = at \/ s < at
    BY <1>2 DEF Sessions
  <2> QED
    BY <1>1, <1>2, <1>3, <1>4, <2>1 DEF Position, Settled, Busy
<1>7. Recorded'
  BY <1>1 DEF Recorded
<1>8. Counted'
  BY <1>1, <1>2, <1>4 DEF Counted, InFile, Appending
<1> QED
  BY <1>1, <1>2, <1>4, <1>5, <1>6, <1>7, <1>8

(* Only the folder of a run whose sessions are all completed is removed.   *)
LEMMA RemoveInvariant ==
    ASSUME IInv, RemoveFolders
    PROVE  /\ IInv'
           /\ \/ Done(disk') = Done(disk)
              \/ Done(disk) = Sessions /\ Done(disk') = {}
<1> USE NSessionsAssumption DEF IInv
<1>1. /\ pc = "session" /\ pc' = "summary" /\ at > NSessions
      /\ UNCHANGED <<at, manifest, url, csv, verdict, stops>>
  BY DEF RemoveFolders
<1>2. /\ manifest \in Manifests /\ at = NSessions + 1 /\ Done(disk) = Done(manifest)
      /\ manifest # Nothing
  BY <1>1, NothingAssumption DEF Position, Typed, Recorded, Forgotten
<1>3. CASE UNCHANGED <<disk, zip, files>>
  <2>1. Typed' /\ Position' /\ Recorded'
    BY <1>1, <1>2, <1>3 DEF Typed, Position, Settled, Busy, Recorded
  <2>2. Counted'
    BY <1>1, <1>3 DEF Counted, InFile, Done, Appending
  <2> QED
    BY <1>3, <2>1, <2>2
<1>4. CASE /\ AllCompleted /\ disk' = Nothing
           /\ zip' = [s \in Sessions |-> Nothing] /\ files' = zip'
  <2>1. Done(manifest) = Sessions /\ Done(disk') = {}
    BY <1>2, <1>4 DEF AllCompleted, Done
  <2>2. \A s \in Sessions : files'[s] = Nothing
    BY <1>4
  <2>3. Typed' /\ Position' /\ Recorded'
    BY <1>1, <1>2, <1>4, <2>1 DEF Typed, Position, Settled, Busy, Recorded, Forgotten
  <2>4. Counted'
    <3>1. ToSet(manifest.included) \subseteq Sessions
      BY <1>2, IncludedAreSessions
    <3> QED
      BY <1>1, <1>4, <2>1, <2>2, <3>1 DEF Counted, InFile
  <2> QED
    BY <1>2, <2>1, <2>3, <2>4
<1> QED
  BY <1>3, <1>4 DEF RemoveFolders

(* The status returned is that of the manifest the call leaves on disk,    *)
(* which counts the sessions counted before or all of them.                *)
LEMMA ReturnInvariant ==
    ASSUME IInv, Return
    PROVE  IInv' /\ Done(disk') \in {Done(disk), Sessions} /\ verdict' = Contract!Reply(Done(disk'))
<1> USE NSessionsAssumption DEF IInv
<1>1. /\ pc = "summary" /\ pc' = "idle" /\ manifest' = manifest /\ disk' = manifest
      /\ verdict' = overall_status
      /\ UNCHANGED <<at, url, zip, files, csv, stops>>
  BY DEF Return, save_manifest
<1>2. /\ manifest \in Manifests /\ at = NSessions + 1 /\ Settled(manifest, at)
      /\ Done(disk) = Done(manifest) \/ Done(manifest) = Sessions
      /\ manifest # Nothing
  BY <1>1, NothingAssumption DEF Position, Recorded, Forgotten
<1>3. \A s \in Sessions : manifest.sessions[s].status \in {"completed", "failed"}
  BY <1>2 DEF Settled, Sessions
<1>4. overall_status = Contract!Reply(Done(manifest))
  <2> DEFINE in(status) == {s \in Sessions : manifest.sessions[s].status = status}
  <2>1. in("completed") = Done(manifest) /\ in("failed") = Sessions \ Done(manifest)
    BY <1>2, <1>3 DEF Done
  <2>2. overall_status = IF in("failed") = {} THEN "success"
                         ELSE IF in("completed") # {} THEN "partial" ELSE "error"
    BY DEF overall_status
  <2>3. Done(manifest) \subseteq Sessions
    BY DEF Done
  <2> HIDE DEF in
  <2>4. in("failed") = {} <=> Done(manifest) = Sessions
    BY <2>1, <2>3
  <2> QED
    BY <2>1, <2>2, <2>4 DEF Contract!Reply
<1>5. Typed'
  BY <1>1, <1>2, <1>4 DEF Typed, Contract!Reply
<1>6. Counted'
  BY <1>1, <1>2 DEF Counted, InFile, Done, Appending
<1> QED
  BY <1>1, <1>2, <1>4, <1>5, <1>6 DEF Position, Recorded

(* A call that is cut short leaves the disk as it is.                      *)
LEMMA StopInvariant == ASSUME IInv, Stop PROVE IInv' /\ Done(disk') = Done(disk)
<1>1. /\ pc' = "idle" /\ at' = 1 /\ manifest' = Nothing /\ verdict' = "raised"
      /\ stops' = stops + 1 /\ stops < MaxStops
      /\ UNCHANGED <<url, disk, zip, files, csv>>
  BY DEF Stop
<1>2. Typed'
  BY <1>1, NSessionsAssumption DEF IInv, Typed
<1>3. Position' /\ Recorded' /\ Counted'
  BY <1>1 DEF IInv, Position, Recorded, Counted, InFile, Done
<1> QED
  BY <1>1, <1>2, <1>3 DEF IInv

-----------------------------------------------------------------------------
(* The specification.                                                      *)

LEMMA InitInvariant == Init => IInv
<1> SUFFICES ASSUME Init PROVE IInv
  OBVIOUS
<1>1. Typed
  BY EmptySeq, NSessionsAssumption DEF Init, Typed
<1> QED
  BY <1>1 DEF Init, IInv, Position, Recorded, Counted

\* The steps that neither complete a session, forget one nor answer.
Inner == \/ Skip \/ AppendRows \/ StartDownload \/ List \/ Download \/ StartExtract
         \/ Unzip \/ StartProcess \/ FailProcess

LEMMA InnerInvariant == ASSUME IInv, Inner PROVE IInv' /\ Done(disk') = Done(disk) /\ UNCHANGED verdict
<1>1. CASE Skip \/ AppendRows
  <2>1. UNCHANGED <<disk, verdict>>
    BY <1>1 DEF Skip, AppendRows
  <2> QED
    BY <1>1, <2>1, SkipInvariant, AppendInvariant
<1> QED
  BY <1>1, StageInvariant DEF Inner

LEMMA StepInvariant == IInv /\ [Next]_vars => IInv'
<1> SUFFICES ASSUME IInv, [Next]_vars PROVE IInv'
  OBVIOUS
<1>1. CASE UNCHANGED vars
  BY <1>1 DEF vars, IInv, Typed, Position, Recorded, Forgotten, Counted, InFile, Done, Settled,
              Appending
<1> QED
  BY <1>1, BeginInvariant, InnerInvariant, CompleteInvariant, RemoveInvariant, ReturnInvariant,
     StopInvariant DEF Next, Step, Inner

LEMMA Invariant == Spec => []IInv
BY InitInvariant, StepInvariant, PTL DEF Spec

(* Every variable stays in its type.                                       *)
THEOREM TypeCorrect == Spec => []TypeOK
<1>1. IInv => TypeOK
  BY DEF IInv, Typed, TypeOK
<1> QED
  BY <1>1, Invariant, PTL

(* The rows of a session that the manifest on disk counts as included are  *)
(* in the CSV, whatever later calls, sessions and stops do.                *)
THEOREM NothingIsLost == Spec => []NothingIncludedIsLost
<1>1. IInv => NothingIncludedIsLost
  BY DEF IInv, Counted, InFile, NothingIncludedIsLost
<1> QED
  BY <1>1, Invariant, PTL

(* Every step is a step of the contract, or leaves the completed sessions  *)
(* and the answer alone.                                                   *)
LEMMA NextIsContractStep == IInv /\ [Next]_vars => [Contract!Next]_(Contract!vars)
<1> SUFFICES ASSUME IInv, [Next]_vars PROVE [Contract!Next]_(Contract!vars)
  OBVIOUS
<1> DEFINE completed == {s \in Sessions : disk # Nothing /\ disk.sessions[s].status = "completed"}
<1>1. completed = Done(disk) /\ completed' = Done(disk')
  BY DEF Done
<1>2. CASE Inner \/ UNCHANGED vars
  <2>1. Done(disk') = Done(disk) /\ UNCHANGED verdict
    BY <1>2, InnerInvariant DEF vars, Done
  <2> QED
    BY <1>1, <2>1 DEF Contract!vars
<1>3. CASE Begin
  <2>1. Done(disk') = Done(disk) /\ verdict' = "nothing"
    BY <1>3, BeginInvariant DEF Begin
  <2> QED
    BY <1>1, <2>1 DEF Contract!Next, Contract!Call
<1>4. CASE Complete
  <2>1. at \in Sessions \ Done(disk) /\ Done(disk') = Done(disk) \cup {at} /\ UNCHANGED verdict
    BY <1>4, CompleteInvariant DEF Complete
  <2> HIDE DEF completed
  <2>2. \E s \in Sessions \ completed : completed' = completed \cup {s} /\ UNCHANGED verdict
    BY <1>1, <2>1
  <2> QED
    BY <2>2 DEF completed, Contract!Next, Contract!Progress
<1>5. CASE RemoveFolders
  <2>1. /\ UNCHANGED verdict
        /\ Done(disk') = Done(disk) \/ (Done(disk) = Sessions /\ Done(disk') = {})
    BY <1>5, RemoveInvariant DEF RemoveFolders
  <2> HIDE DEF completed
  <2>2. \/ completed = Sessions /\ completed' = {} /\ UNCHANGED verdict
        \/ UNCHANGED <<completed, verdict>>
    BY <1>1, <2>1
  <2> QED
    BY <2>2 DEF completed, Contract!Next, Contract!Forget, Contract!vars
<1>6. CASE Return
  <2>1. Done(disk') \in {Done(disk), Sessions} /\ verdict' = Contract!Reply(Done(disk'))
    BY <1>6, ReturnInvariant
  <2> HIDE DEF completed
  <2>2. completed' \in {completed, Sessions} /\ verdict' = Contract!Reply(completed')
    BY <1>1, <2>1
  <2> QED
    BY <2>2 DEF completed, Contract!Next, Contract!Return
<1>7. CASE Stop
  <2>1. Done(disk') = Done(disk) /\ verdict' = "raised"
    BY <1>7, StopInvariant DEF Stop
  <2> QED
    BY <1>1, <2>1 DEF Contract!Next, Contract!Raise
<1> QED
  BY <1>2, <1>3, <1>4, <1>5, <1>6, <1>7 DEF Next, Step, Inner

(* The tool keeps its contract: a completed session is never worked on     *)
(* again, wherever a call fails or is cut short, and the status returned   *)
(* says whether all, some or none of the sessions are completed.           *)
THEOREM KeepsContract == Spec => ImplementsContract
<1>1. Init => Contract!Init
  BY DEF Init, Contract!Init
<1> QED
  BY <1>1, Invariant, NextIsContractStep, PTL DEF Spec, ImplementsContract, Contract!Spec

=============================================================================
