-------------------------- MODULE SessionArtifacts --------------------------
(***************************************************************************)
(* process_session_artifacts of the BlazeMeter MCP server: the artifacts   *)
(* of every session (load generator) of a finished run are downloaded,     *)
(* unzipped and appended to one CSV.  A manifest on disk records the       *)
(* progress, so that the tool may be called again after a failure or after *)
(* the server stopped.  One call runs at a time; a call may be abandoned   *)
(* at any step.                                                            *)
(***************************************************************************)
EXTENDS Integers, Sequences, FiniteSets, SequencesExt

CONSTANTS
    NSessions,       \* sessions of the run
    Cleanups,        \* values cleanup_session_folders of config.yaml may have
    MaxStops,        \* bound on the calls that are cut short
    MaxRows,         \* bound on the CSV, in appended files
    Nothing          \* no manifest, no URL, no file

ASSUME NSessionsAssumption == NSessions \in Nat \ {0} /\ MaxStops \in Nat

VARIABLES
    pc, at,          \* the call in progress: its step, and the session it is at
    manifest,        \* the call's copy of the manifest
    url,             \* artifact_zip_url of the MCP session's state: a session, or Nothing
    disk,            \* session_manifest.json, or Nothing
    zip, files,      \* artifacts.zip and its unzipped files, for each session
    csv,             \* test-results.csv: the sessions whose rows it holds, in order
    verdict,         \* the status the last call returned
    stops

vars == <<pc, at, manifest, url, disk, zip, files, csv, verdict, stops>>

Sessions == 1 .. NSessions
Stages == {"pending", "in_progress", "completed", "failed"}
Statuses == {"pending", "downloading", "extracting", "processing", "completed", "failed"}

\* A zip holds the artifacts of one session; it may be unreadable, or lack kpi.jtl.
Zips == [of : Sessions, readable : BOOLEAN, kpi : BOOLEAN]

Entries == [status : Statuses, download : Stages, extract : Stages, process : Stages]

Manifests == [sessions : [Sessions -> Entries], included : Seq(Sessions)]

ASSUME NothingAssumption == Nothing \notin Manifests

create_manifest ==
    [sessions |-> [s \in Sessions |-> [status |-> "pending", download |-> "pending",
                                       extract |-> "pending", process |-> "pending"]],
     included |-> <<>>]

Init == /\ pc = "idle" /\ at = 1 /\ manifest = Nothing /\ url = Nothing
        /\ disk = Nothing /\ csv = <<>> /\ verdict = "nothing" /\ stops = 0
        /\ zip = [s \in Sessions |-> Nothing] /\ files = [s \in Sessions |-> Nothing]

-----------------------------------------------------------------------------
Entry == manifest.sessions[at]

\* The session's entry in the call's manifest.
With(entry) == [manifest EXCEPT !.sessions[at] = entry]

save_manifest(m) == manifest' = m /\ disk' = m

Begin == /\ pc = "idle"
         /\ IF disk = Nothing THEN save_manifest(create_manifest)
                              ELSE manifest' = disk /\ UNCHANGED disk
         /\ url' \in {url, Nothing}     \* the same MCP session, or another one
         /\ pc' = "session" /\ at' = 1 /\ verdict' = "nothing"
         /\ UNCHANGED <<zip, files, csv, stops>>

\* Mutated form: a completed session is looked at again.
NeverSkipped == FALSE

Skipped == Entry.status = "completed"

Skip == /\ pc = "session" /\ at \in Sessions
        /\ Skipped
        /\ at' = at + 1
        /\ UNCHANGED <<pc, manifest, url, disk, zip, files, csv, verdict, stops>>

Fail(entry) == /\ save_manifest(With([entry EXCEPT !.status = "failed"]))
               /\ at' = at + 1 /\ pc' = "session"

\* A downloaded zip is kept from an earlier call, whatever became of it since.
StartDownload ==
    /\ pc = "session" /\ at \in Sessions /\ ~Skipped
    /\ IF Entry.download = "completed"
       THEN pc' = "extract" /\ UNCHANGED <<manifest, disk>>
       ELSE /\ save_manifest(With([Entry EXCEPT !.status = "downloading",
                                                !.download = "in_progress"]))
            /\ pc' = "list"
    /\ UNCHANGED <<at, url, zip, files, csv, verdict, stops>>

\* Mutated form: a session whose listing has no zip is passed over.
PassOver == /\ at' = at + 1 /\ pc' = "session" /\ UNCHANGED <<manifest, disk>>

NoZip == Fail([Entry EXCEPT !.download = "failed"])

\* The listing names the session's artifacts.zip, or does not; the URL is
\* then read from the MCP session's state.
List == /\ pc = "list"
        /\ \E listed \in BOOLEAN :
              /\ url' = IF listed THEN at ELSE url
              /\ IF url' = Nothing
                 THEN NoZip
                 ELSE pc' = "download" /\ UNCHANGED <<at, manifest, disk>>
        /\ UNCHANGED <<zip, files, csv, verdict, stops>>

Download ==
    /\ pc = "download"
    /\ \/ \E z \in Zips :
             /\ z.of = url
             /\ zip' = [zip EXCEPT ![at] = z]
             /\ manifest' = With([Entry EXCEPT !.download = "completed"])
             /\ pc' = "extract"
             /\ UNCHANGED <<at, disk>>
       \/ /\ Fail([Entry EXCEPT !.download = "failed"])
          /\ UNCHANGED zip
    /\ UNCHANGED <<url, files, csv, verdict, stops>>

StartExtract ==
    /\ pc = "extract"
    /\ IF Entry.extract = "completed"
       THEN pc' = "process" /\ UNCHANGED <<manifest, disk>>
       ELSE /\ save_manifest(With([Entry EXCEPT !.status = "extracting",
                                                !.extract = "in_progress"]))
            /\ pc' = "unzip"
    /\ UNCHANGED <<at, url, zip, files, csv, verdict, stops>>

Unzip == /\ pc = "unzip"
         /\ \/ /\ zip[at] # Nothing /\ zip[at].readable
               /\ files' = [files EXCEPT ![at] = zip[at]]
               /\ manifest' = With([Entry EXCEPT !.extract = "completed"])
               /\ pc' = "process"
               /\ UNCHANGED <<at, disk>>
            \/ /\ Fail([Entry EXCEPT !.extract = "failed"])
               /\ UNCHANGED files
         /\ UNCHANGED <<url, zip, csv, verdict, stops>>

StartProcess ==
    /\ pc = "process"
    /\ save_manifest(With([Entry EXCEPT !.status = "processing",
                                        !.process = "in_progress"]))
    /\ pc' = "append"
    /\ UNCHANGED <<at, url, zip, files, csv, verdict, stops>>

Included == ToSet(manifest.included)

\* Mutated form: the first session's file is the one with the header.
FirstSession(s) == s = 1

is_first(s) == manifest.included = <<>>

append_jtl_to_csv(f) == csv' = IF is_first(at) THEN <<f.of>> ELSE Append(csv, f.of)

HasRows == files[at] # Nothing /\ files[at].kpi /\ at \notin Included

\* The rows are in the file before any manifest says so.
AppendRows ==
    /\ pc = "append" /\ files[at] # Nothing /\ Len(csv) < MaxRows
    /\ IF HasRows
       THEN /\ append_jtl_to_csv(files[at])
            /\ manifest' = [manifest EXCEPT !.included = Append(@, at)]
       ELSE UNCHANGED <<csv, manifest>>
    /\ pc' = "complete"
    /\ UNCHANGED <<at, url, disk, zip, files, verdict, stops>>

\* Copying the log or the rows fails, the rows half way.
FailProcess ==
    /\ pc = "append" /\ Len(csv) < MaxRows
    /\ Fail([Entry EXCEPT !.process = "failed"])
    /\ csv' \in {csv} \cup (IF HasRows
                            THEN {IF is_first(at) THEN <<files[at].of>>
                                                  ELSE Append(csv, files[at].of)}
                            ELSE {})
    /\ UNCHANGED <<url, zip, files, verdict, stops>>

Complete ==
    /\ pc = "complete"
    /\ save_manifest(With([Entry EXCEPT !.status = "completed", !.process = "completed"]))
    /\ at' = at + 1 /\ pc' = "session"
    /\ UNCHANGED <<url, zip, files, csv, verdict, stops>>

AllCompleted == \A s \in Sessions : manifest.sessions[s].status = "completed"

\* The folder that is removed holds the manifest too.
RemoveFolders ==
    /\ pc = "session" /\ at > NSessions
    /\ \E cleanup \in Cleanups :
          IF cleanup /\ AllCompleted
          THEN /\ disk' = Nothing
               /\ zip' = [s \in Sessions |-> Nothing] /\ files' = zip'
          ELSE UNCHANGED <<disk, zip, files>>
    /\ pc' = "summary"
    /\ UNCHANGED <<at, manifest, url, csv, verdict, stops>>

overall_status ==
    LET in(status) == {s \in Sessions : manifest.sessions[s].status = status}
    IN  IF in("failed") = {} THEN "success"
        ELSE IF in("completed") # {} THEN "partial" ELSE "error"

Return == /\ pc = "summary"
          /\ save_manifest(manifest)
          /\ verdict' = overall_status
          /\ pc' = "idle"
          /\ UNCHANGED <<at, url, zip, files, csv, stops>>

\* The server stops, or an exception outside the stages' handlers (a listing
\* that cannot be read, a full disk) leaves the tool.
Stop == /\ pc # "idle" /\ stops < MaxStops
        /\ stops' = stops + 1
        /\ pc' = "idle" /\ at' = 1 /\ manifest' = Nothing /\ verdict' = "raised"
        /\ UNCHANGED <<url, disk, zip, files, csv>>

Step == \/ Begin \/ Skip \/ StartDownload \/ List \/ Download \/ StartExtract \/ Unzip
        \/ StartProcess \/ AppendRows \/ FailProcess \/ Complete \/ RemoveFolders \/ Return

Next == Step \/ Stop

Spec == Init /\ [][Next]_vars

-----------------------------------------------------------------------------
(* Properties.                                                             *)

TypeOK == /\ at \in 1 .. NSessions + 1 /\ stops \in 0 .. MaxStops
          /\ url \in Sessions \cup {Nothing}
          /\ {manifest, disk} \subseteq Manifests \cup {Nothing}
          /\ zip \in [Sessions -> Zips \cup {Nothing}]
          /\ files \in [Sessions -> Zips \cup {Nothing}]
          /\ csv \in Seq(Sessions)
          /\ verdict \in {"nothing", "success", "partial", "error", "raised"}

\* The rows of a session the manifest on disk counts as included are in the
\* CSV: no later call, session or stop rewrites the file without them.
NothingIncludedIsLost ==
    disk # Nothing =>
        \A s \in ToSet(disk.included) :
            files[s] # Nothing => files[s].of \in ToSet(csv)

\* Callers may rely on the contract: a completed session stays completed in
\* every later manifest, whatever fails and wherever the call is cut short,
\* and the returned status counts the sessions that earlier calls left
\* completed or failed as well as this call's.
Contract == INSTANCE ArtifactContract WITH
    completed <- {s \in Sessions : disk # Nothing /\ disk.sessions[s].status = "completed"}

ImplementsContract == Contract!Spec

\* "idempotent": the CSV holds the rows of no session twice (blazemeter-mcp
\* README: re-run with the same parameters to retry only failed sessions).
RowsAreCountedOnce == \A i, j \in DOMAIN csv : csv[i] = csv[j] => i = j

\* "Re-run to retry N failed session(s)" (the tool's message): a session that
\* failed can always be completed by a later call that meets no failure.
FailedCanBeRetried ==
    disk # Nothing =>
        \A s \in Sessions :
            (disk.sessions[s].download = "completed" /\ disk.sessions[s].status = "failed")
                => (zip[s] # Nothing /\ zip[s].readable)
=============================================================================
