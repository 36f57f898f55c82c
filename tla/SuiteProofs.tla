------------------------------ MODULE SuiteProofs ------------------------------
(***************************************************************************)
(* Proofs about three parts of the MCP performance suite: the report and   *)
(* its revision, the editor of a JMeter script with its backups, and the   *)
(* bottleneck analysis.  The parts share no state: each has its inductive  *)
(* invariant (RevisionInv, EditorInv, AnalysisInv) and its theorems.       *)
(***************************************************************************)
EXTENDS ReportRevision, JmxEditor, Analysis, FiniteSetTheorems, SequenceTheorems,
        NaturalsInduction, WellFoundedInduction, TLAPS

-----------------------------------------------------------------------------
(* Sets of naturals.                                                       *)

(* A set of naturals that is not empty has a least element.                *)
LEMMA LeastNumber ==
    ASSUME NEW S \in SUBSET Nat, S # {}
    PROVE  \E m \in S : \A n \in S : m <= n
<1>1. \E m \in S : \A n \in S : ~ (<<n, m>> \in OpToRel(<, Nat))
  BY NatLessThanWellFounded, WFMin, Zenon
<1>2. PICK m \in S : \A n \in S : ~ (<<n, m>> \in OpToRel(<, Nat))
  BY <1>1
<1>3. \A n \in S : ~(n < m)
  BY <1>2 DEF OpToRel
<1>4. \A n \in S : m <= n
  BY <1>3
<1> QED
  BY <1>4

LEMMA LeastIs ==
    ASSUME NEW S \in SUBSET Nat, NEW m \in S, \A n \in S : m <= n
    PROVE  Min(S) = m
<1>1. \E x \in S : \A y \in S : x <= y
  OBVIOUS
<1>2. Min(S) \in S /\ \A y \in S : Min(S) <= y
  BY <1>1 DEF Min
<1>3. Min(S) \in Nat /\ m \in Nat /\ Min(S) <= m /\ m <= Min(S)
  BY <1>2
<1> QED
  BY <1>3

(* What holds at 0, and at i + 1 where it holds at i, holds up to n: the   *)
(* numbers at which it holds are given as a set.                           *)
LEMMA CountUp ==
    ASSUME NEW n \in Nat, NEW P, 0 \in P, \A i \in 0 .. n - 1 : i \in P => i + 1 \in P
    PROVE  \A i \in 0 .. n : i \in P
<1> DEFINE S == {i \in 0 .. n : i \notin P}
<1> SUFFICES ASSUME S # {} PROVE FALSE
  OBVIOUS
<1>1. PICK m \in S : \A i \in S : m <= i
  <2>1. S \in SUBSET Nat
    OBVIOUS
  <2> HIDE DEF S
  <2> QED
    BY <2>1, LeastNumber
<1>2. m \in 1 .. n
  BY <1>1
<1>3. m - 1 \in 0 .. n - 1 /\ m - 1 \notin S
  BY <1>1, <1>2
<1>4. m - 1 \in P
  BY <1>2, <1>3
<1> QED
  BY <1>1, <1>2, <1>3, <1>4

-----------------------------------------------------------------------------
(* The report and its revision.                                            *)

Endings == {"original", "revised"}
FileNames == Seq(Endings)

Shown == [Sections -> -1 .. MaxVersions]
Versioned == [Sections -> 0 .. MaxVersions]

\* A folder whose files are all of a type.
IsFolder(folder, Files) ==
    DOMAIN folder \subseteq FileNames /\ folder \in [DOMAIN folder -> Files]

Texts(editions) == [edition : 1 .. editions, shows : Shown]
Records == [path : FileNames, used : Versioned]
Calls == [path : FileNames, used : Versioned, shows : Shown]

\* A version a text shows is the one recorded.
Tells(used, shows) == \A s \in Sections : shows[s] > 0 => used[s] = shows[s]

RevisionTypes ==
    /\ kind \in Kinds /\ enabled \subseteq Sections
    /\ template = Nothing \/ template \subseteq Sections
    /\ versions \in Versioned
    /\ edition \in 0 .. MaxEditions /\ untold \in BOOLEAN
    /\ pc \in {"idle", "backup_report", "backup_metadata", "save", "update"}
    /\ IsFolder(text, Texts(edition)) /\ IsFolder(metadata, Records)
    /\ pc # "idle" => call \in Calls /\ Tells(call.used, call.shows)

\* What the metadata point to exists, and so does what a revision works on.
PathsExist ==
    /\ \A n \in DOMAIN metadata : metadata[n].path \in DOMAIN text
    /\ pc # "idle" => Exists(text) /\ Exists(metadata)
    /\ pc = "update" => call.path \in DOMAIN text

\* A run's report: only the revised text shows versions, and the metadata are
\* revised only once they have a backup.
RunKept ==
    /\ DOMAIN text \subseteq {Base, Backup(Base), Revised(Base)}
    /\ DOMAIN metadata \subseteq {Base, Backup(Base)}
    /\ \A n \in DOMAIN text : n = Revised(Base) \/ text[n].shows = Unrevised
    /\ \A n \in DOMAIN metadata : n # Base \/ Backup(Base) \notin DOMAIN metadata =>
            metadata[n].used = Unrevised
    /\ pc \in {"save", "update"} => Backup(Base) \in DOMAIN metadata
    /\ pc = "update" => call.path = Revised(Base) /\ text[call.path].shows = call.shows

\* What the metadata of a run's report record is what the report shows.
RunTold ==
    Base \in DOMAIN metadata /\ ~untold =>
        Tells(metadata[Base].used, text[metadata[Base].path].shows)

RevisionInv == /\ RevisionTypes /\ PathsExist
               /\ kind = "single_run" => RunKept /\ RunTold

(* The bounds, one by one.                                                 *)
LEMMA RevisionBounds == /\ MaxVersions \in Nat /\ MaxFiles \in Nat
                        /\ MaxEditions \in Nat /\ MaxEditions >= 1
  BY RevisionAssumption

(* The names of a report's files are three.                                *)
LEMMA FileNamesDiffer ==
    /\ Base \in FileNames
    /\ \A n \in FileNames : Backup(n) \in FileNames /\ Revised(n) \in FileNames
    /\ Base # Backup(Base) /\ Base # Revised(Base) /\ Backup(Base) # Revised(Base)
<1>1. Base \in FileNames
  BY DEF Base, FileNames
<1>2. ASSUME NEW n \in FileNames, NEW suffix \in Endings
      PROVE  /\ Append(n, suffix) \in FileNames
             /\ Len(Append(n, suffix)) = Len(n) + 1
             /\ Append(n, suffix)[Len(n) + 1] = suffix
  BY <1>2, AppendProperties DEF FileNames
<1>3. Len(Base) = 0
  BY DEF Base
<1>4. /\ Len(Backup(Base)) = 1 /\ Backup(Base)[1] = "original"
      /\ Len(Revised(Base)) = 1 /\ Revised(Base)[1] = "revised"
  BY <1>1, <1>2, <1>3 DEF Backup, Revised, Endings
<1>5. \A n \in FileNames : Backup(n) \in FileNames /\ Revised(n) \in FileNames
  BY <1>2 DEF Backup, Revised, Endings
<1>6. /\ Base # Backup(Base) /\ Base # Revised(Base) /\ Backup(Base) # Revised(Base)
  BY <1>3, <1>4
<1> QED
  BY <1>1, <1>5, <1>6

(* A file that is written is there with its content, the others as before. *)
LEMMA PutFacts ==
    ASSUME NEW name, NEW content, NEW folder
    PROVE  /\ DOMAIN Put(name, content, folder) = DOMAIN folder \cup {name}
           /\ Put(name, content, folder)[name] = content
           /\ \A n \in DOMAIN folder \ {name} : Put(name, content, folder)[n] = folder[n]
  BY DEF Put

(* Writing a file leaves a folder of files of its type.                    *)
LEMMA PutTyped ==
    ASSUME NEW Files, NEW folder, IsFolder(folder, Files),
           NEW name \in FileNames, NEW content \in Files
    PROVE  IsFolder(Put(name, content, folder), Files)
<1>1. \A n \in DOMAIN folder \cup {name} :
         (IF n = name THEN content ELSE folder[n]) \in Files
  BY DEF IsFolder
<1> QED
  BY <1>1 DEF Put, IsFolder

(* Keeping a backup adds at most the backup, which is what the file held.  *)
LEMMA KeepFacts ==
    ASSUME NEW folder, NEW name \in DOMAIN folder
    PROVE  LET later == Keep(name, folder)
           IN  /\ DOMAIN later = DOMAIN folder \cup {Backup(name)}
               /\ \A n \in DOMAIN folder : later[n] = folder[n]
               /\ Backup(name) \notin DOMAIN folder => later[Backup(name)] = folder[name]
<1>1. CASE Backup(name) \in DOMAIN folder
  BY <1>1 DEF Keep
<1>2. CASE Backup(name) \notin DOMAIN folder
  <2>1. Keep(name, folder) = Put(Backup(name), folder[name], folder)
    BY <1>2 DEF Keep
  <2>2. \A n \in DOMAIN folder : n \in DOMAIN folder \ {Backup(name)}
    BY <1>2
  <2> DEFINE later == Put(Backup(name), folder[name], folder)
  <2>3. /\ DOMAIN later = DOMAIN folder \cup {Backup(name)}
        /\ later[Backup(name)] = folder[name]
        /\ \A n \in DOMAIN folder \ {Backup(name)} : later[n] = folder[n]
    BY DEF Put
  <2> QED
    BY <2>1, <2>2, <2>3, Zenon
<1> QED
  BY <1>1, <1>2

LEMMA KeepTyped ==
    ASSUME NEW Files, NEW folder, IsFolder(folder, Files), NEW name \in DOMAIN folder
    PROVE  IsFolder(Keep(name, folder), Files)
<1>1. name \in FileNames /\ Backup(name) \in FileNames /\ folder[name] \in Files
  BY FileNamesDiffer DEF IsFolder
<1> QED
  BY <1>1, PutTyped DEF Keep

(* A folder with the file a path function names is not empty, and all it   *)
(* may name is there.                                                      *)
LEMMA NamedExist ==
    ASSUME NEW folder, Exists(folder), NEW n \in Named(folder)
    PROVE  n \in DOMAIN folder
<1>1. CASE kind = "comparison" /\ folder # <<>>
  BY <1>1 DEF Named
<1>2. CASE ~(kind = "comparison" /\ folder # <<>>)
  BY <1>2 DEF Named, Exists
<1> QED
  BY <1>1, <1>2

(* A rendered report shows, of each section, the version the call uses or  *)
(* none at all.                                                            *)
LEMMA RenderTells ==
    ASSUME NEW placeholders, NEW used \in Versioned
    PROVE  /\ _render_template(placeholders, used) \in Shown
           /\ Tells(used, _render_template(placeholders, used))
<1> USE RevisionBounds DEF Versioned, Own, Unrendered
<1>1. \A s \in Sections : used[s] \in 0 .. MaxVersions
  OBVIOUS
<1> QED
  BY <1>1 DEF Shown, _render_template, Tells

LEMMA UseTyped ==
    ASSUME versions \in Versioned, NEW requested \in 0 .. MaxVersions
    PROVE  [s \in Sections |-> Use(s, requested)] \in Versioned
<1>1. \A s \in Sections : Use(s, requested) \in 0 .. MaxVersions
  BY RevisionBounds DEF Versioned, Use, Own
<1> QED
  BY <1>1 DEF Versioned

LEMMA UnrevisedTyped == Unrevised \in Shown /\ Unrevised \in Versioned
  BY RevisionBounds DEF Unrevised, Own, Shown, Versioned

(* A folder that gains files still has the one a path function names.      *)
LEMMA ExistsGrows ==
    ASSUME NEW folder, NEW later, Exists(folder), DOMAIN folder \subseteq DOMAIN later
    PROVE  Exists(later)
<1>1. PICK n \in Named(folder) : n \in DOMAIN later
  BY DEF Exists
<1>2. later # <<>>
  BY <1>1
<1>3. CASE kind = "comparison"
  BY <1>1, <1>2, <1>3 DEF Exists, Named
<1>4. CASE kind # "comparison"
  BY <1>1, <1>4 DEF Exists, Named
<1> QED
  BY <1>3, <1>4

(* A report is generated.                                                  *)
LEMMA GenerateKeeps ==
    ASSUME RevisionInv, NEW times \in 1 .. MaxEditions, Generate(times)
    PROVE  RevisionInv'
<1> USE RevisionBounds DEF RevisionInv
<1> DEFINE new == [edition |-> edition', shows |-> Unrevised]
           record == [path |-> Base, used |-> Unrevised]
<1>1. /\ pc = "idle" /\ pc' = "idle" /\ edition \in 0 .. MaxEditions
      /\ edition' = edition + 1 /\ edition' \in 0 .. MaxEditions
      /\ text' = Put(Base, new, text)
      /\ \/ metadata' = Put(Base, record, metadata) /\ untold' = FALSE
         \/ metadata' = metadata /\ untold' = untold
      /\ kind' = kind /\ enabled' = enabled /\ template' = template /\ versions' = versions
  BY DEF Generate, RevisionTypes
<1>2. /\ DOMAIN text' = DOMAIN text \cup {Base}
      /\ text'[Base] = new
      /\ \A n \in DOMAIN text \ {Base} : text'[n] = text[n]
  BY <1>1 DEF Put
<1>3. \/ /\ DOMAIN metadata' = DOMAIN metadata \cup {Base}
         /\ metadata'[Base] = record /\ untold' = FALSE
         /\ \A n \in DOMAIN metadata \ {Base} : metadata'[n] = metadata[n]
      \/ metadata' = metadata /\ untold' = untold
  BY <1>1 DEF Put
<1>4. RevisionTypes'
  <2>1. new \in Texts(edition')
    BY <1>1, UnrevisedTyped DEF Texts
  <2>2. record \in Records
    BY UnrevisedTyped, FileNamesDiffer DEF Records
  <2>3. IsFolder(text, Texts(edition'))
    <3>1. Texts(edition) \subseteq Texts(edition')
      BY <1>1 DEF Texts
    <3> QED
      BY <3>1 DEF RevisionTypes, IsFolder
  <2>4. IsFolder(text', Texts(edition'))
    BY <1>1, <2>1, <2>3, PutTyped, FileNamesDiffer
  <2>5. IsFolder(metadata', Records)
    BY <1>1, <2>2, PutTyped, FileNamesDiffer DEF RevisionTypes
  <2>6. /\ kind \in Kinds /\ enabled \subseteq Sections
        /\ template = Nothing \/ template \subseteq Sections
        /\ versions \in Versioned /\ untold \in BOOLEAN
    BY DEF RevisionTypes
  <2> QED
    BY <1>1, <2>4, <2>5, <2>6 DEF RevisionTypes
<1>5. PathsExist'
  BY <1>1, <1>2, <1>3 DEF PathsExist
<1>6. ASSUME kind' = "single_run" PROVE RunKept' /\ RunTold'
  <2>1. kind = "single_run" /\ RunKept /\ RunTold
    BY <1>1, <1>6
  <2>2. RunKept'
    BY <1>1, <1>2, <1>3, <2>1, FileNamesDiffer DEF RunKept
  <2>3. RunTold'
    <3>1. CASE metadata' = metadata /\ untold' = untold
      <4>1. SUFFICES ASSUME Base \in DOMAIN metadata, ~untold
                     PROVE  Tells(metadata[Base].used, text'[metadata[Base].path].shows)
        BY <3>1 DEF RunTold
      <4>2. metadata[Base].path \in DOMAIN text
        BY <4>1 DEF PathsExist
      <4>3. CASE metadata[Base].path = Base
        BY <1>2, <4>3 DEF Tells, Unrevised, Own
      <4>4. CASE metadata[Base].path # Base
        BY <1>2, <2>1, <4>1, <4>2, <4>4 DEF RunTold
      <4> QED
        BY <4>3, <4>4
    <3>2. CASE metadata'[Base] = record
      BY <1>2, <3>2 DEF RunTold, Tells, Unrevised, Own
    <3> QED
      BY <1>3, <3>1, <3>2
  <2> QED
    BY <2>2, <2>3
<1> QED
  BY <1>4, <1>5, <1>6

(* A revision begins with what its call found.                             *)
LEMMA BeginKeeps ==
    ASSUME RevisionInv, NEW requested \in 0 .. MaxVersions, Begin(requested)
    PROVE  RevisionInv'
<1> USE DEF RevisionInv
<1> DEFINE used == [s \in Sections |-> Use(s, requested)]
           shows == _render_template(template', used)
<1>1. /\ kind' = kind /\ enabled' = enabled /\ versions' = versions /\ text' = text
      /\ metadata' = metadata /\ edition' = edition /\ untold' = untold
  BY DEF Begin, files
<1>2. /\ pc = "idle" /\ Exists(text) /\ Exists(metadata)
      /\ template' = _ensure_ai_template_exists
      /\ \/ pc' = "backup_report" /\ call' = [path |-> Base, used |-> used, shows |-> shows]
         \/ pc' = "idle"
  BY DEF Begin
<1>3. template' = Nothing \/ template' \subseteq Sections
  BY <1>2 DEF _ensure_ai_template_exists, RevisionTypes
<1>4. used \in Versioned
  BY UseTyped DEF RevisionTypes
<1>5. shows \in Shown /\ Tells(used, shows)
  BY <1>4, RenderTells
<1>6. pc' # "idle" => call' \in Calls /\ Tells(call.used, call.shows)'
  <2> HIDE DEF used, shows
  <2> QED
    BY <1>2, <1>4, <1>5, FileNamesDiffer DEF Calls
<1>7. RevisionTypes'
  BY <1>1, <1>2, <1>3, <1>6 DEF RevisionTypes
<1>8. PathsExist'
  BY <1>1, <1>2 DEF PathsExist, Exists, Named
<1>9. kind' = "single_run" => RunKept' /\ RunTold'
  BY <1>1, <1>2 DEF RunKept, RunTold
<1> QED
  BY <1>7, <1>8, <1>9

(* The report is backed up, unless it is already.                          *)
LEMMA BackupReportKeeps ==
    ASSUME RevisionInv, BackupReport
    PROVE  RevisionInv'
<1> USE DEF RevisionInv
<1>1. PICK n \in Named(text) : text' = Keep(n, text)
  BY DEF BackupReport
<1>2. /\ pc = "backup_report" /\ pc' = "backup_metadata"
      /\ kind' = kind /\ enabled' = enabled /\ template' = template /\ versions' = versions
      /\ metadata' = metadata /\ edition' = edition /\ call' = call /\ untold' = untold
  BY DEF BackupReport
<1>3. n \in DOMAIN text
  BY <1>2, NamedExist DEF PathsExist
<1>4. /\ DOMAIN text' = DOMAIN text \cup {Backup(n)}
      /\ \A m \in DOMAIN text : text'[m] = text[m]
      /\ Backup(n) \notin DOMAIN text => text'[Backup(n)] = text[n]
  BY <1>1, <1>3, KeepFacts
<1>5. RevisionTypes'
  <2>1. IsFolder(text', Texts(edition))
    BY <1>1, <1>3, KeepTyped DEF RevisionTypes
  <2> QED
    BY <1>2, <2>1 DEF RevisionTypes
<1>6. PathsExist'
  <2>1. Exists(text')
    BY <1>2, <1>4, ExistsGrows DEF PathsExist
  <2> QED
    BY <1>2, <1>4, <2>1 DEF PathsExist, Exists, Named
<1>7. ASSUME kind' = "single_run" PROVE RunKept' /\ RunTold'
  <2>1. kind = "single_run" /\ RunKept /\ RunTold /\ n = Base
    BY <1>2, <1>7 DEF Named
  <2>2. RunKept'
    BY <1>2, <1>3, <1>4, <2>1, FileNamesDiffer DEF RunKept
  <2>3. RunTold'
    BY <1>2, <1>4, <2>1 DEF RunTold, PathsExist
  <2> QED
    BY <2>2, <2>3
<1> QED
  BY <1>5, <1>6, <1>7

(* The metadata are backed up, unless they are already.                    *)
LEMMA BackupMetadataKeeps ==
    ASSUME RevisionInv, BackupMetadata
    PROVE  RevisionInv'
<1> USE DEF RevisionInv
<1>1. PICK n \in Named(metadata) : metadata' = Keep(n, metadata)
  BY DEF BackupMetadata
<1>2. /\ pc = "backup_metadata" /\ pc' = "save"
      /\ kind' = kind /\ enabled' = enabled /\ template' = template /\ versions' = versions
      /\ text' = text /\ edition' = edition /\ call' = call /\ untold' = untold
  BY DEF BackupMetadata
<1>3. n \in DOMAIN metadata
  BY <1>2, NamedExist DEF PathsExist
<1>4. /\ DOMAIN metadata' = DOMAIN metadata \cup {Backup(n)}
      /\ \A m \in DOMAIN metadata : metadata'[m] = metadata[m]
      /\ Backup(n) \notin DOMAIN metadata => metadata'[Backup(n)] = metadata[n]
  BY <1>1, <1>3, KeepFacts
<1>5. RevisionTypes'
  <2>1. IsFolder(metadata', Records)
    BY <1>1, <1>3, KeepTyped DEF RevisionTypes
  <2> QED
    BY <1>2, <2>1 DEF RevisionTypes
<1>6. PathsExist'
  <2>1. Exists(metadata')
    BY <1>2, <1>4, ExistsGrows DEF PathsExist
  <2> QED
    BY <1>2, <1>3, <1>4, <2>1 DEF PathsExist, Exists, Named
<1>7. ASSUME kind' = "single_run" PROVE RunKept' /\ RunTold'
  <2>1. kind = "single_run" /\ RunKept /\ RunTold /\ n = Base
    BY <1>2, <1>7 DEF Named
  <2>2. RunKept'
    BY <1>2, <1>3, <1>4, <2>1, FileNamesDiffer DEF RunKept
  <2>3. RunTold'
    BY <1>2, <1>3, <1>4, <2>1 DEF RunTold
  <2> QED
    BY <2>2, <2>3
<1> QED
  BY <1>5, <1>6, <1>7

(* The revised text is saved: only now does the report show a version.     *)
LEMMA SaveKeeps ==
    ASSUME RevisionInv, Save
    PROVE  RevisionInv'
<1> USE DEF RevisionInv
<1> DEFINE new == [edition |-> edition, shows |-> call.shows]
<1>1. PICK n \in Named(text) : text' = Put(Revised(n), new, text)
                              /\ call' = [call EXCEPT !.path = Revised(n)]
  BY DEF Save
<1>2. /\ pc = "save" /\ pc' = "update" /\ untold' = TRUE
      /\ kind' = kind /\ enabled' = enabled /\ template' = template /\ versions' = versions
      /\ metadata' = metadata /\ edition' = edition
  BY DEF Save
<1>3. n \in DOMAIN text /\ n \in FileNames /\ Revised(n) \in FileNames
  BY <1>2, NamedExist, FileNamesDiffer DEF PathsExist, RevisionTypes, IsFolder
<1>4. /\ DOMAIN text' = DOMAIN text \cup {Revised(n)}
      /\ text'[Revised(n)] = new
      /\ \A m \in DOMAIN text \ {Revised(n)} : text'[m] = text[m]
  BY <1>1 DEF Put
<1>5. /\ call' \in Calls /\ call'.path = Revised(n)
      /\ call'.used = call.used /\ call'.shows = call.shows
  BY <1>1, <1>2, <1>3 DEF RevisionTypes, Calls
<1>6. RevisionTypes'
  <2>1. text[n] \in Texts(edition) /\ call.shows \in Shown
    BY <1>2, <1>3 DEF RevisionTypes, IsFolder, Calls
  <2>2. new \in Texts(edition)
    BY <2>1 DEF Texts, RevisionTypes
  <2>3. IsFolder(text', Texts(edition))
    BY <1>1, <1>3, <2>2, PutTyped DEF RevisionTypes
  <2> QED
    BY <1>2, <1>5, <2>3 DEF RevisionTypes
<1>7. PathsExist'
  <2>1. Exists(text')
    BY <1>2, <1>4, ExistsGrows DEF PathsExist
  <2> QED
    BY <1>2, <1>4, <1>5, <2>1 DEF PathsExist, Exists, Named
<1>8. ASSUME kind' = "single_run" PROVE RunKept' /\ RunTold'
  <2>1. kind = "single_run" /\ RunKept /\ RunTold /\ n = Base
    BY <1>2, <1>8 DEF Named
  <2>2. RunKept'
    BY <1>2, <1>3, <1>4, <1>5, <2>1, FileNamesDiffer DEF RunKept
  <2>3. RunTold'
    BY <1>2 DEF RunTold
  <2> QED
    BY <2>2, <2>3
<1> QED
  BY <1>6, <1>7, <1>8

(* The metadata record the revision, or stay as they were.                 *)
LEMMA UpdateKeeps ==
    ASSUME RevisionInv, _update_metadata_with_revision
    PROVE  RevisionInv'
<1> USE DEF RevisionInv
<1>1. /\ pc = "update" /\ pc' = "idle"
      /\ kind' = kind /\ enabled' = enabled /\ template' = template /\ versions' = versions
      /\ text' = text /\ edition' = edition
  BY DEF _update_metadata_with_revision
<1>2. CASE metadata' = metadata /\ untold' = untold
  BY <1>1, <1>2 DEF RevisionTypes, PathsExist, RunKept, RunTold
<1>3. CASE /\ \E n \in Named(metadata) : metadata' = Put(n, Record(n), metadata)
           /\ untold' = FALSE
  <2>1. PICK n \in Named(metadata) : metadata' = Put(n, Record(n), metadata)
    BY <1>3
  <2>2. n \in DOMAIN metadata /\ n \in FileNames
    BY <1>1, NamedExist DEF PathsExist, RevisionTypes, IsFolder
  <2>3. call \in Calls /\ Tells(call.used, call.shows) /\ call.path \in DOMAIN text
    BY <1>1 DEF RevisionTypes, PathsExist
  <2>4. /\ DOMAIN metadata' = DOMAIN metadata
        /\ metadata'[n] = [path |-> call.path, used |-> call.used]
        /\ \A m \in DOMAIN metadata \ {n} : metadata'[m] = metadata[m]
    BY <2>1, <2>2 DEF Put, Record
  <2>5. RevisionTypes'
    <3>1. Record(n) \in Records
      BY <2>3 DEF Record, Records, Calls
    <3>2. IsFolder(metadata', Records)
      BY <2>1, <2>2, <3>1, PutTyped DEF RevisionTypes
    <3> QED
      BY <1>1, <1>3, <3>2 DEF RevisionTypes
  <2>6. PathsExist'
    BY <1>1, <2>3, <2>4 DEF PathsExist
  <2>7. ASSUME kind' = "single_run" PROVE RunKept' /\ RunTold'
    <3>1. kind = "single_run" /\ RunKept /\ n = Base
      BY <1>1, <2>7 DEF Named
    <3>2. RunKept'
      BY <1>1, <2>4, <3>1 DEF RunKept
    <3>3. RunTold'
      BY <1>1, <2>3, <2>4, <3>1 DEF RunKept, RunTold
    <3> QED
      BY <3>2, <3>3
  <2> QED
    BY <2>5, <2>6, <2>7
<1> QED
  BY <1>2, <1>3 DEF _update_metadata_with_revision

LEMMA RevisionInductive == Spec => []RevisionInv
<1>1. Init => RevisionInv
  <2> SUFFICES ASSUME Init PROVE RevisionInv
    OBVIOUS
  <2>1. DOMAIN text = {} /\ DOMAIN metadata = {}
    BY DEF Init
  <2>2. versions \in Versioned
    BY RevisionBounds DEF Init, Versioned
  <2>3. IsFolder(text, Texts(edition)) /\ IsFolder(metadata, Records)
    BY <2>1 DEF IsFolder, Init
  <2>4. RevisionTypes
    <3>1. kind \in Kinds /\ enabled = {} /\ template = Nothing /\ edition = 0
      BY DEF Init
    <3>2. pc = "idle"
      BY DEF Init
    <3>3. untold = FALSE
      BY DEF Init
    <3>4. edition \in 0 .. MaxEditions
      BY <3>1, RevisionBounds
    <3> QED
      BY <2>2, <2>3, <3>1, <3>2, <3>3, <3>4 DEF RevisionTypes
  <2>5. /\ pc = "idle" /\ ~(pc \in {"save", "update"}) /\ pc # "update"
    BY DEF Init
  <2>6. PathsExist /\ RunKept /\ RunTold
    BY <2>1, <2>5 DEF PathsExist, RunKept, RunTold
  <2> QED
    BY <2>4, <2>6 DEF RevisionInv
<1>2. RevisionInv /\ [Next]_vars => RevisionInv'
  <2> SUFFICES ASSUME RevisionInv, [Next]_vars PROVE RevisionInv'
    OBVIOUS
  <2>1. ASSUME NEW sections \in SUBSET Sections, Configure(sections) PROVE RevisionInv'
    BY <2>1 DEF Configure, files, RevisionInv, RevisionTypes, PathsExist, Exists, Named,
                RunKept, RunTold
  <2>2. CASE generate_performance_test_report \/ generate_comparison_report
    BY <2>2, GenerateKeeps, RevisionBounds
    DEF generate_performance_test_report, generate_comparison_report
  <2>3. ASSUME NEW s \in Sections, prepare_revision_context(s) PROVE RevisionInv'
    <3>1. versions' \in Versioned
      BY <2>3, RevisionBounds
      DEF prepare_revision_context, get_next_revision_version, RevisionInv, RevisionTypes,
          Versioned
    <3> QED
      BY <2>3, <3>1 DEF prepare_revision_context, files, RevisionInv, RevisionTypes,
                        PathsExist, Exists, Named, RunKept, RunTold
  <2>4. ASSUME NEW requested \in 0 .. MaxVersions,
               _revise_single_run_report(requested) \/ _revise_comparison_report(requested)
        PROVE  RevisionInv'
    BY <2>4, BeginKeeps DEF _revise_single_run_report, _revise_comparison_report
  <2>5. CASE BeginOther
    BY <2>5 DEF BeginOther, _ensure_ai_template_exists, files, RevisionInv, RevisionTypes,
                PathsExist, Exists, Named, RunKept, RunTold
  <2>6. CASE BackupReport \/ BackupMetadata \/ Save \/ _update_metadata_with_revision
    BY <2>6, BackupReportKeeps, BackupMetadataKeeps, SaveKeeps, UpdateKeeps
  <2>7. CASE Stop
    BY <2>7 DEF Stop, files, RevisionInv, RevisionTypes, PathsExist, RunKept, RunTold
  <2>8. CASE UNCHANGED vars
    BY <2>8 DEF vars, files, RevisionInv, RevisionTypes, PathsExist, Exists, Named,
                RunKept, RunTold
  <2> QED
    BY <2>1, <2>2, <2>3, <2>4, <2>5, <2>6, <2>7, <2>8 DEF Next
<1> QED
  BY <1>1, <1>2, PTL DEF Spec

(* Every variable of the report's revision has its type.                   *)
THEOREM RevisionTypeCorrect == Spec => []TypeOK
<1>1. RevisionInv => TypeOK
  BY DEF RevisionInv, RevisionTypes, IsFolder, Texts, Records, Versioned, Shown, TypeOK
<1> QED
  BY <1>1, RevisionInductive, PTL

(* The metadata name a file that exists, and what they record is what a    *)
(* run's report shows.                                                     *)
THEOREM MetadataAreTrue == Spec => []MetadataTellTheReport
<1>1. RevisionInv => MetadataTellTheReport
  BY DEF RevisionInv, PathsExist, RunTold, Tells, MetadataTellTheReport
<1> QED
  BY <1>1, RevisionInductive, PTL

(* No step changes a backup of a run's report, or backs up a revision.     *)
THEOREM BackupsAreOriginals == Spec => BackupsStand
<1> DEFINE Standing ==
      kind = "single_run" =>
          /\ Stands(text, text') /\ Stands(metadata, metadata')
          /\ Backup(Base) \in DOMAIN text' => text'[Backup(Base)].shows = Unrevised
          /\ Backup(Base) \in DOMAIN metadata' => metadata'[Backup(Base)].used = Unrevised
<1>1. RevisionInv /\ RevisionInv' /\ [Next]_vars => Standing
  <2> SUFFICES ASSUME RevisionInv, RevisionInv', [Next]_vars, kind = "single_run"
               PROVE  Standing
    OBVIOUS
  <2>1. kind' = kind
    BY DEF Next, vars, Configure, generate_performance_test_report, generate_comparison_report,
           Generate, prepare_revision_context, _revise_single_run_report,
           _revise_comparison_report, Begin, BeginOther, BackupReport, BackupMetadata, Save,
           _update_metadata_with_revision, Stop
  <2>2. /\ Backup(Base) \in DOMAIN text' => text'[Backup(Base)].shows = Unrevised
        /\ Backup(Base) \in DOMAIN metadata' => metadata'[Backup(Base)].used = Unrevised
    BY <2>1, FileNamesDiffer DEF RevisionInv, RunKept
  <2>3. Stands(text, text') /\ Stands(metadata, metadata')
    <3>1. ASSUME NEW folder, NEW name \in {Base, Revised(Base)}, NEW content
          PROVE  Stands(folder, Put(name, content, folder))
      BY <3>1, FileNamesDiffer DEF Put, Stands
    <3>2. ASSUME NEW folder, NEW name \in Named(folder), Exists(folder)
          PROVE  Stands(folder, Keep(name, folder))
      BY <3>2, NamedExist, KeepFacts DEF Stands
    <3>3. ASSUME NEW folder PROVE Stands(folder, folder)
      BY DEF Stands
    <3>4. ASSUME NEW folder PROVE Named(folder) = {Base}
      BY DEF Named
    <3>5. ASSUME NEW times, Generate(times)
          PROVE  Stands(text, text') /\ Stands(metadata, metadata')
      BY <3>1, <3>3, <3>5 DEF Generate
    <3>6. CASE BackupReport
      BY <3>2, <3>3, <3>6 DEF BackupReport, RevisionInv, PathsExist
    <3>7. CASE BackupMetadata
      BY <3>2, <3>3, <3>7 DEF BackupMetadata, RevisionInv, PathsExist
    <3>8. CASE Save
      BY <3>1, <3>3, <3>4, <3>8 DEF Save
    <3>9. CASE _update_metadata_with_revision
      BY <3>1, <3>3, <3>4, <3>9 DEF _update_metadata_with_revision
    <3>10. CASE text' = text /\ metadata' = metadata
      BY <3>3, <3>10
    <3> QED
      BY <3>5, <3>6, <3>7, <3>8, <3>9, <3>10
      DEF Next, vars, files, Configure, generate_performance_test_report,
          generate_comparison_report, prepare_revision_context, _revise_single_run_report,
          _revise_comparison_report, Begin, BeginOther, Stop
  <2> QED
    BY <2>2, <2>3
<1> QED
  BY <1>1, RevisionInductive, PTL DEF Spec, BackupsStand

-----------------------------------------------------------------------------
(* The editor of scripts.                                                  *)

LatestIs(f, script) == made[f] \in DOMAIN backups[f] /\ backups[f][made[f]] = script

\* A script whose backups are its own: they are its history, the latest is the
\* one in the making, and then what is replaced, or about to be.
History(f) ==
    /\ Numbered(f)
    /\ scripts[f] = Torn => LatestIs(f, before[f])
    /\ At("copy") /\ change.of = f => made[f] \in DOMAIN backups[f] /\ change.copy = made[f]
    /\ (At("prune") \/ At("open")) /\ change.of = f => LatestIs(f, scripts[f])
    /\ At("write") /\ change.of = f => LatestIs(f, before[f])

EditorTypes ==
    /\ DOMAIN scripts = Stems /\ DOMAIN backups = Stems /\ DOMAIN before = Stems
    /\ made \in [Stems -> Nat]
    /\ \/ newest \in Stems
       \/ /\ newest = None /\ analysis = None /\ change = None
          /\ \A f \in Stems : scripts[f] = None /\ DOMAIN backups[f] = {}
    /\ analysis # None => analysis.of \in Stems
    /\ change # None => /\ {"of", "script", "step", "copy"} \subseteq DOMAIN change
                        /\ change.of \in Stems
                        /\ change.step # "write" => scripts[change.of] # Torn

EditorInv == EditorTypes /\ (CreateBackup => \A f \in Stems : Lone(f) => History(f))

(* The constants, one by one.                                              *)
LEMMA EditorBounds == /\ \A f \in Stems : f \in Seq(STRING) /\ Order[f] \in Nat
                      /\ MaxBackups \in Nat /\ MaxBackups >= 1
                      /\ Generated # Torn /\ Generated # None
  BY EditorAssumption

(* A script is listed under its own name.                                  *)
LEMMA OwnPrefix == \A f \in Stems : IsPrefix(f, f)
  BY EditorBounds DEF IsPrefix

(* What a listing shows after a backup of such a script are its later      *)
(* backups, whichever script the listing is for.                           *)
LEMMA LaterAreHigher ==
    ASSUME NEW b, NEW f \in Stems, Lone(f), NEW g \in Stems, IsPrefix(g, f), NEW n
    PROVE  LaterThan(<<f, n>>, Listing(b, g)) = {<<f, m>> : m \in {m \in DOMAIN b[f] : n < m}}
<1>1. ASSUME NEW y \in LaterThan(<<f, n>>, Listing(b, g))
      PROVE  y \in {<<f, m>> : m \in {m \in DOMAIN b[f] : n < m}}
  <2>1. PICK h \in {h \in Stems : IsPrefix(g, h)} : y \in {h} \X DOMAIN b[h]
    BY DEF LaterThan, Listing
  <2>2. PICK m \in DOMAIN b[h] : y = <<h, m>>
    BY <2>1
  <2>3. Order[f] < Order[h] \/ (f = h /\ n < m)
    BY <2>2 DEF LaterThan
  <2>4. ~(Order[f] < Order[h])
    BY EditorBounds DEF Lone
  <2> QED
    BY <2>2, <2>3, <2>4
<1>2. ASSUME NEW m \in DOMAIN b[f], n < m
      PROVE  <<f, m>> \in LaterThan(<<f, n>>, Listing(b, g))
  <2>1. <<f, m>> \in Listing(b, g)
    BY DEF Listing
  <2> QED
    BY <1>2, <2>1 DEF LaterThan
<1> QED
  BY <1>1, <1>2

(* A pair for each number is as many pairs as numbers.                     *)
LEMMA PairsOfInterval ==
    ASSUME NEW f, NEW n \in Nat, NEW k \in Nat, n <= k
    PROVE  Cardinality({<<f, m>> : m \in n + 1 .. k}) = k - n
<1> DEFINE S == {<<f, m>> : m \in n + 1 .. k}
           count == [i \in 1 .. k - n |-> <<f, n + i>>]
<1>1. count \in Bijection(1 .. k - n, S)
  <2>1. count \in [1 .. k - n -> S]
    OBVIOUS
  <2>2. \A i, j \in 1 .. k - n : count[i] = count[j] => i = j
    OBVIOUS
  <2>3. ASSUME NEW s \in S PROVE \E i \in 1 .. k - n : count[i] = s
    <3>1. PICK m \in n + 1 .. k : s = <<f, m>>
      OBVIOUS
    <3>2. m - n \in 1 .. k - n /\ n + (m - n) = m
      OBVIOUS
    <3> QED
      BY <3>1, <3>2
  <2> QED
    BY <2>1, <2>2, <2>3 DEF Bijection, Injection, IsInjective, Surjection
<1>2. ExistsBijection(1 .. k - n, S)
  BY <1>1 DEF ExistsBijection
<1>3. k - n \in Nat
  OBVIOUS
<1> HIDE DEF S
<1> QED
  BY <1>2, <1>3, FS_CountingElements DEF S

(* A script's numbers run from one above those forgotten to the last given. *)
LEMMA NumbersRun ==
    ASSUME NEW f \in Stems, Numbered(f), made[f] \in Nat
    PROVE  \E gone \in Nat : /\ gone <= made[f] /\ DOMAIN backups[f] = gone + 1 .. made[f]
                             /\ gone = 0 \/ made[f] - gone >= MaxBackups
                             /\ made[f] > 0 => gone < made[f]
<1>1. PICK kept \in 0 .. made[f] : /\ DOMAIN backups[f] = made[f] - kept + 1 .. made[f]
                                   /\ kept = made[f] \/ kept >= MaxBackups
  BY DEF Numbered
<1> DEFINE gone == made[f] - kept
<1>2. gone \in Nat /\ gone <= made[f] /\ made[f] - gone = kept
  OBVIOUS
<1>3. made[f] > 0 => gone < made[f]
  BY <1>1, EditorBounds
<1> QED
  BY <1>1, <1>2, <1>3

(* The number a backup is given is one more than those given before.       *)
LEMMA NumbersGoOn ==
    ASSUME NEW f \in Stems, Lone(f), Numbered(f), made[f] \in Nat
    PROVE  next_num(f) = made[f] + 1
<1> DEFINE existing == Listing(backups, f)
           newestOf == CHOOSE x \in existing : LaterThan(x, existing) = {}
<1>1. IsPrefix(f, f)
  BY OwnPrefix
<1>2. existing = {f} \X DOMAIN backups[f]
  BY <1>1 DEF Listing, Lone
<1>3. PICK gone \in Nat : /\ gone <= made[f] /\ DOMAIN backups[f] = gone + 1 .. made[f]
                          /\ made[f] > 0 => gone < made[f]
  BY NumbersRun
<1>4. CASE made[f] = 0
  <2>1. DOMAIN backups[f] = {}
    BY <1>3, <1>4
  <2>2. existing = {}
    BY <1>2, <2>1
  <2> QED
    BY <1>4, <2>2 DEF next_num
<1>5. CASE made[f] # 0
  <2>1. made[f] \in DOMAIN backups[f] /\ \A m \in DOMAIN backups[f] : m \in Nat /\ m <= made[f]
    BY <1>3, <1>5
  <2>2. <<f, made[f]>> \in existing
    BY <1>2, <2>1
  <2>3. \A n \in DOMAIN backups[f] :
           LaterThan(<<f, n>>, existing) = {<<f, m>> : m \in {m \in DOMAIN backups[f] : n < m}}
    BY <1>1, LaterAreHigher
  <2>4. LaterThan(<<f, made[f]>>, existing) = {}
    BY <2>1, <2>3
  <2>5. newestOf \in existing /\ LaterThan(newestOf, existing) = {}
    BY <2>2, <2>4
  <2> HIDE DEF newestOf
  <2>6. PICK n \in DOMAIN backups[f] : newestOf = <<f, n>>
    BY <1>2, <2>5
  <2>7. n = made[f]
    <3>1. {<<f, m>> : m \in {m \in DOMAIN backups[f] : n < m}} = {}
      BY <2>3, <2>5, <2>6
    <3>2. ~(n < made[f])
      BY <2>1, <3>1
    <3> QED
      BY <2>1, <3>2
  <2>8. existing # {} /\ newestOf[2] = made[f]
    BY <2>2, <2>6, <2>7
  <2> QED
    BY <2>8 DEF next_num, newestOf
<1> QED
  BY <1>4, <1>5

(* A backup that is put there changes no other.                            *)
LEMMA HeldIs ==
    ASSUME EditorTypes, NEW g \in Stems, NEW n, NEW script
    PROVE  /\ DOMAIN Holding(g, n, script) = Stems
           /\ \A f \in Stems : f # g => Holding(g, n, script)[f] = backups[f]
           /\ DOMAIN Holding(g, n, script)[g] = DOMAIN backups[g] \cup {n}
           /\ Holding(g, n, script)[g][n] = script
           /\ \A m \in DOMAIN backups[g] : m # n =>
                  Holding(g, n, script)[g][m] = backups[g][m]
<1>1. DOMAIN backups = Stems
  BY DEF EditorTypes
<1>2. Holding(g, n, script)[g] = [m \in DOMAIN backups[g] \cup {n} |->
                                     IF m = n THEN script ELSE backups[g][m]]
  BY <1>1 DEF Holding
<1> QED
  BY <1>1, <1>2 DEF Holding

(* A script's backups are removed only where its own alone are listed and  *)
(* more of them than are to be kept, and then it is the oldest.            *)
LEMMA OldestGoes ==
    ASSUME EditorTypes, NEW f \in Stems, Lone(f), Numbered(f), change # None,
           NEW n \in DOMAIN backups[f], Surplus(<<f, n>>), NEW gone \in Nat,
           gone <= made[f], DOMAIN backups[f] = gone + 1 .. made[f]
    PROVE  n = gone + 1 /\ made[f] - gone > MaxBackups
<1> DEFINE g == change.of
           listing == Listing(backups, g)
<1>1. g \in Stems /\ made[f] \in Nat
  BY DEF EditorTypes
<1>2. /\ Cardinality(listing) > MaxBackups /\ <<f, n>> \in listing
      /\ listing \subseteq LaterThan(<<f, n>>, listing) \cup {<<f, n>>}
  BY DEF Surplus
<1>3. IsPrefix(g, f)
  BY <1>2 DEF Listing
<1>4. ASSUME NEW m \in DOMAIN backups[f] PROVE <<f, m>> \in listing
  <2>1. f \in {h \in Stems : IsPrefix(g, h)} /\ <<f, m>> \in {f} \X DOMAIN backups[f]
    BY <1>3
  <2> QED
    BY <2>1 DEF Listing
<1>5. LaterThan(<<f, n>>, listing) = {<<f, m>> : m \in {m \in DOMAIN backups[f] : n < m}}
  BY <1>1, <1>3, LaterAreHigher
<1> HIDE DEF listing
<1>6. ASSUME NEW m \in DOMAIN backups[f] PROVE n <= m
  <2>1. <<f, m>> \in {<<f, k>> : k \in {k \in DOMAIN backups[f] : n < k}} \/ m = n
    BY <1>2, <1>4, <1>5
  <2> QED
    BY <1>1, <2>1
<1>7. n = gone + 1
  <2>1. gone + 1 \in DOMAIN backups[f]
    BY <1>1
  <2> QED
    BY <1>1, <1>6, <2>1
<1>8. listing = {<<f, m>> : m \in gone + 1 .. made[f]}
  BY <1>2, <1>4, <1>5
<1>9. Cardinality(listing) = made[f] - gone
  BY <1>1, <1>8, PairsOfInterval
<1> QED
  BY <1>2, <1>7, <1>9

LEMMA RemovalLeaves ==
    ASSUME EditorTypes, NEW f \in Stems, Lone(f), Numbered(f), RemoveOldest
    PROVE  /\ Numbered(f)'
           /\ \A n \in DOMAIN backups'[f] :
                  n \in DOMAIN backups[f] /\ backups'[f][n] = backups[f][n]
           /\ made[f] \in DOMAIN backups[f] => made[f] \in DOMAIN backups'[f]
<1>1. /\ change # None /\ change.step = "prune" /\ change' = change /\ made' = made
      /\ made[f] \in Nat /\ DOMAIN backups = Stems
  BY DEF RemoveOldest, At, EditorTypes
<1>2. PICK h \in Stems : \E n \in DOMAIN backups[h] :
          /\ Surplus(<<h, n>>)
          /\ backups' = [backups EXCEPT ![h] = [m \in DOMAIN @ \ {n} |-> @[m]]]
  BY DEF RemoveOldest
<1>3. PICK n \in DOMAIN backups[h] :
          /\ Surplus(<<h, n>>)
          /\ backups' = [backups EXCEPT ![h] = [m \in DOMAIN @ \ {n} |-> @[m]]]
  BY <1>2
<1>4. CASE h # f
  <2>1. backups'[f] = backups[f]
    BY <1>1, <1>3, <1>4
  <2> QED
    BY <1>1, <2>1 DEF Numbered, At
<1>5. CASE h = f
  <2>1. backups'[f] = [m \in DOMAIN backups[f] \ {n} |-> backups[f][m]]
    BY <1>1, <1>3, <1>5
  <2>2. PICK gone \in Nat : gone <= made[f] /\ DOMAIN backups[f] = gone + 1 .. made[f]
    BY <1>1, NumbersRun
  <2>3. n = gone + 1 /\ made[f] - gone > MaxBackups
    BY <1>1, <1>3, <1>5, <2>2, OldestGoes
  <2> DEFINE kept == made[f] - gone - 1
  <2>4. /\ kept \in 0 .. made[f] /\ kept >= MaxBackups
        /\ DOMAIN backups'[f] = made[f] - kept + 1 .. made[f]
    BY <1>1, <2>1, <2>2, <2>3, EditorBounds
  <2>5. Numbered(f)'
    BY <1>1, <2>4 DEF Numbered, At
  <2>6. made[f] \in DOMAIN backups'[f]
    BY <1>1, <2>4, EditorBounds
  <2> QED
    BY <2>1, <2>5, <2>6
<1> QED
  BY <1>4, <1>5

(* A change begins with a script that can be read.                         *)
LEMMA ChangeBegins ==
    ASSUME EditorTypes, add_jmx_component \/ edit_jmx_component
    PROVE  /\ newest \in Stems /\ UNCHANGED <<disk, analysis, before, made>>
           /\ {"of", "script", "step", "copy"} \subseteq DOMAIN change'
           /\ change'.step = "backup"
           /\ change'.of \in Stems /\ Readable(change'.of)
<1>1. newest \in Stems /\ analysis.of \in Stems
  BY DEF EditorTypes, add_jmx_component, edit_jmx_component, Ready
<1>2. PICK x \in Targets : \E script : BeginChange(x[1], x[2], x[3], script)
  <2>1. CASE add_jmx_component
    <3>1. PICK x \in Targets : AddBelow(x[1], x[2], x[3])
      BY <2>1 DEF add_jmx_component
    <3> QED
      BY <3>1 DEF AddBelow
  <2>2. CASE edit_jmx_component
    <3>1. PICK x \in Targets : EditAt(x[1], x[2], x[3])
      BY <2>2 DEF edit_jmx_component
    <3> QED
      BY <3>1 DEF EditAt
  <2> QED
    BY <2>1, <2>2
<1>3. x[1] \in Discovered
  BY DEF Targets
<1>4. x[1] \in Stems /\ Readable(x[1])
  BY <1>1, <1>3 DEF Discovered
<1> QED
  BY <1>1, <1>2, <1>4 DEF BeginChange

(* The backup of a change: it is there, with a number of its own.          *)
LEMMA BackUpKeeps ==
    ASSUME EditorInv, BackUpScript
    PROVE  EditorInv'
<1> USE DEF EditorInv
<1> DEFINE g == change.of
<1>1. /\ change # None /\ change.step = "backup" /\ g \in Stems /\ scripts[g] # Torn
      /\ {"of", "script", "step", "copy"} \subseteq DOMAIN change /\ newest \in Stems
      /\ scripts' = scripts /\ newest' = newest /\ analysis' = analysis /\ before' = before
  BY DEF BackUpScript, At, EditorTypes
<1>2. CASE ~CreateBackup
  <2>1. /\ backups' = backups /\ made' = made
        /\ change' = [change EXCEPT !.step = "open"]
    BY <1>2 DEF BackUpScript, Then
  <2>2. /\ change'.of = g /\ change'.step = "open"
        /\ {"of", "script", "step", "copy"} \subseteq DOMAIN change'
    BY <1>1, <2>1
  <2> QED
    BY <1>1, <1>2, <2>1, <2>2 DEF EditorTypes
<1>3. CASE CreateBackup
  <2> DEFINE n == next_num(g)
  <2>1. /\ backups' = Holding(g, n, Torn) /\ made' = [made EXCEPT ![g] = @ + 1]
        /\ change' = [change EXCEPT !.step = "copy", !.copy = n]
    BY <1>3 DEF BackUpScript, create_backup
  <2>2. /\ change'.of = g /\ change'.step = "copy" /\ change'.copy = n
        /\ {"of", "script", "step", "copy"} \subseteq DOMAIN change'
    BY <1>1, <2>1
  <2>3. /\ DOMAIN backups' = Stems /\ \A f \in Stems : f # g => backups'[f] = backups[f]
        /\ DOMAIN backups'[g] = DOMAIN backups[g] \cup {n}
    BY <1>1, <2>1, HeldIs
  <2>4. /\ made' \in [Stems -> Nat]
        /\ \A f \in Stems : made'[f] = IF f = g THEN made[f] + 1 ELSE made[f]
    BY <1>1, <2>1 DEF EditorTypes
  <2> HIDE DEF n
  <2>5. EditorTypes'
    BY <1>1, <2>2, <2>3, <2>4 DEF EditorTypes
  <2>6. ASSUME NEW f \in Stems, Lone(f) PROVE History(f)'
    <3>1. History(f) /\ Numbered(f) /\ made[f] \in Nat
      BY <1>3, <2>6 DEF History, EditorTypes
    <3>2. CASE f = g
      <4>1. n = made'[f] /\ made'[f] = made[f] + 1
        BY <2>4, <2>6, <3>1, <3>2, NumbersGoOn DEF n
      <4>2. PICK kept \in 0 .. made[f] : /\ DOMAIN backups[f] = made[f] - kept + 1 .. made[f]
                                         /\ kept = made[f] \/ kept >= MaxBackups
        BY <3>1 DEF Numbered
      <4>3. DOMAIN backups'[f] = made'[f] - (kept + 1) + 1 .. made'[f]
        <5>1. /\ made[f] - kept + 1 = made'[f] - (kept + 1) + 1
              /\ \A a \in Int : a <= made[f] + 1 =>
                     (a .. made[f]) \cup {made[f] + 1} = a .. made[f] + 1
          BY <3>1, <4>1
        <5>2. made[f] - kept + 1 \in Int /\ made[f] - kept + 1 <= made[f] + 1
          BY <3>1
        <5>3. DOMAIN backups'[f] = DOMAIN backups[f] \cup {made[f] + 1}
          BY <2>3, <3>2, <4>1
        <5> QED
          BY <4>1, <4>2, <5>1, <5>2, <5>3
      <4>4. /\ kept + 1 \in 0 .. made'[f]
            /\ kept + 1 = made'[f] \/ kept + 1 >= MaxBackups
        BY <3>1, <4>1, <4>2, EditorBounds
      <4>5. Numbered(f)'
        BY <2>2, <4>3, <4>4 DEF Numbered, At
      <4> QED
        BY <1>1, <2>2, <2>3, <3>2, <4>1, <4>5 DEF History, At
    <3>3. CASE f # g
      <4>1. backups'[f] = backups[f] /\ made'[f] = made[f]
        BY <2>3, <2>4, <3>3
      <4> QED
        BY <1>1, <2>2, <3>1, <3>3, <4>1 DEF History, Numbered, LatestIs, At
    <3> QED
      BY <3>2, <3>3
  <2> QED
    BY <2>5, <2>6 DEF Lone
<1> QED
  BY <1>2, <1>3

(* The backup holds the script, and the oldest are forgotten.              *)
LEMMA PruningKeeps ==
    ASSUME EditorInv, CopyScript \/ RemoveOldest \/ BackedUp
    PROVE  EditorInv'
<1> USE DEF EditorInv
<1> DEFINE g == change.of
<1>1. /\ change # None /\ g \in Stems /\ {"of", "script", "step", "copy"} \subseteq DOMAIN change
      /\ change.step \in {"copy", "prune"} /\ newest \in Stems /\ scripts[g] # Torn
      /\ scripts' = scripts /\ newest' = newest /\ analysis' = analysis /\ before' = before
      /\ made' = made
  BY DEF CopyScript, RemoveOldest, BackedUp, At, EditorTypes, disk
<1>2. CASE CopyScript
  <2>1. /\ change.step = "copy" /\ backups' = Holding(g, change.copy, scripts[g])
        /\ change' = [change EXCEPT !.step = "prune"]
    BY <1>2 DEF CopyScript, At, Then
  <2>2. /\ change'.of = g /\ change'.step = "prune"
        /\ {"of", "script", "step", "copy"} \subseteq DOMAIN change'
    BY <1>1, <2>1
  <2>3. /\ DOMAIN backups' = Stems /\ \A f \in Stems : f # g => backups'[f] = backups[f]
        /\ DOMAIN backups'[g] = DOMAIN backups[g] \cup {change.copy}
        /\ backups'[g][change.copy] = scripts[g]
    BY <1>1, <2>1, HeldIs
  <2>4. EditorTypes'
    BY <1>1, <2>2, <2>3 DEF EditorTypes
  <2>5. ASSUME CreateBackup, NEW f \in Stems, Lone(f) PROVE History(f)'
    <3>1. History(f)
      BY <2>5
    <3>2. CASE f = g
      <4>1. made[f] \in DOMAIN backups[f] /\ change.copy = made[f]
        BY <1>1, <2>1, <3>1, <3>2 DEF History, At
      <4>2. DOMAIN backups'[f] = DOMAIN backups[f] /\ backups'[f][made[f]] = scripts[f]
        BY <2>3, <3>2, <4>1
      <4> QED
        BY <1>1, <2>2, <3>1, <3>2, <4>1, <4>2 DEF History, Numbered, LatestIs, At
    <3>3. CASE f # g
      <4>1. backups'[f] = backups[f]
        BY <2>3, <3>3
      <4> QED
        BY <1>1, <2>2, <3>1, <3>3, <4>1 DEF History, Numbered, LatestIs, At
    <3> QED
      BY <3>2, <3>3
  <2> QED
    BY <2>4, <2>5 DEF Lone
<1>3. CASE RemoveOldest
  <2>1. change.step = "prune" /\ change' = change /\ DOMAIN backups' = Stems
    BY <1>3 DEF RemoveOldest, At, EditorTypes
  <2>2. EditorTypes'
    BY <1>1, <2>1 DEF EditorTypes
  <2>3. ASSUME CreateBackup, NEW f \in Stems, Lone(f) PROVE History(f)'
    <3>1. History(f) /\ Numbered(f)
      BY <2>3 DEF History
    <3>2. /\ Numbered(f)'
          /\ \A n \in DOMAIN backups'[f] :
                 n \in DOMAIN backups[f] /\ backups'[f][n] = backups[f][n]
          /\ made[f] \in DOMAIN backups[f] => made[f] \in DOMAIN backups'[f]
      BY <1>3, <2>3, <3>1, RemovalLeaves
    <3> QED
      BY <1>1, <2>1, <3>1, <3>2 DEF History, LatestIs, At
  <2> QED
    BY <2>2, <2>3 DEF Lone
<1>4. CASE BackedUp
  <2>1. /\ change.step = "prune" /\ change' = [change EXCEPT !.step = "open"]
        /\ Cardinality(Listing(backups, g)) <= MaxBackups /\ backups' = backups
    BY <1>4 DEF BackedUp, At, Then, disk
  <2>2. /\ change'.of = g /\ change'.step = "open"
        /\ {"of", "script", "step", "copy"} \subseteq DOMAIN change'
    BY <1>1, <2>1
  <2>3. EditorTypes'
    BY <1>1, <2>1, <2>2 DEF EditorTypes
  <2>4. ASSUME CreateBackup, NEW f \in Stems, Lone(f) PROVE History(f)'
    <3>1. History(f) /\ Numbered(f) /\ made[f] \in Nat
      BY <2>4 DEF History, EditorTypes
    <3>2. ASSUME f = g PROVE Cardinality(DOMAIN backups[f]) <= MaxBackups
      <4>1. PICK gone \in Nat : gone <= made[f] /\ DOMAIN backups[f] = gone + 1 .. made[f]
        BY <3>1, NumbersRun
      <4>2. Listing(backups, f) = {f} \X DOMAIN backups[f]
        BY <2>4, OwnPrefix DEF Listing, Lone
      <4>3. Listing(backups, g) = {<<f, m>> : m \in gone + 1 .. made[f]}
        BY <3>2, <4>1, <4>2
      <4>4. Cardinality({<<f, m>> : m \in gone + 1 .. made[f]}) = made[f] - gone
        BY <3>1, <4>1, PairsOfInterval
      <4>5. made[f] - gone <= MaxBackups
        BY <2>1, <4>3, <4>4
      <4>6. gone + 1 \in Int /\ made[f] \in Int
        BY <3>1
      <4>7. Cardinality(gone + 1 .. made[f]) = IF gone + 1 > made[f] THEN 0
                                               ELSE made[f] - (gone + 1) + 1
        BY <4>6, FS_Interval
      <4> QED
        BY <3>1, <4>1, <4>5, <4>7, EditorBounds
    <3>3. Numbered(f)'
      BY <1>1, <2>1, <2>2, <3>1, <3>2 DEF Numbered, At
    <3> QED
      BY <1>1, <2>1, <2>2, <3>1, <3>3 DEF History, LatestIs, At
  <2> QED
    BY <2>3, <2>4 DEF Lone
<1> QED
  BY <1>2, <1>3, <1>4

(* The script is emptied, and then written.                                *)
LEMMA WritingKeeps ==
    ASSUME EditorInv, OpenToWrite \/ Write
    PROVE  EditorInv'
<1> USE DEF EditorInv
<1> DEFINE g == change.of
<1>1. /\ change # None /\ g \in Stems /\ {"of", "script", "step", "copy"} \subseteq DOMAIN change
      /\ newest \in Stems
      /\ backups' = backups /\ made' = made /\ analysis' = analysis
  BY DEF OpenToWrite, Write, At, EditorTypes
<1>2. CASE OpenToWrite
  <2>1. /\ change.step = "open" /\ change' = [change EXCEPT !.step = "write"]
        /\ before' = [before EXCEPT ![g] = scripts[g]]
        /\ scripts' = [scripts EXCEPT ![g] = Torn] /\ newest' = g
    BY <1>2 DEF OpenToWrite, At, Then
  <2>2. /\ change'.of = g /\ change'.step = "write"
        /\ {"of", "script", "step", "copy"} \subseteq DOMAIN change'
    BY <1>1, <2>1
  <2>3. EditorTypes'
    BY <1>1, <2>1, <2>2 DEF EditorTypes, At
  <2>4. ASSUME CreateBackup, NEW f \in Stems, Lone(f) PROVE History(f)'
    <3>1. History(f)
      BY <2>4
    <3>2. f = g => LatestIs(f, scripts[f])
      BY <1>1, <2>1, <3>1 DEF History, At
    <3>3. /\ f = g => before'[f] = scripts[f]
          /\ f # g => before'[f] = before[f] /\ scripts'[f] = scripts[f]
      BY <1>1, <2>1 DEF EditorTypes
    <3>4. CASE f = g
      <4>1. Numbered(f)'
        BY <1>1, <2>1, <2>2, <3>1 DEF History, Numbered, At
      <4> QED
        BY <1>1, <2>2, <3>2, <3>3, <3>4, <4>1 DEF History, LatestIs, At
    <3>5. CASE f # g
      BY <1>1, <2>2, <3>1, <3>3, <3>5 DEF History, Numbered, LatestIs, At
    <3> QED
      BY <3>4, <3>5
  <2> QED
    BY <2>3, <2>4 DEF Lone
<1>3. CASE Write
  <2>1. /\ change.step = "write" /\ change' = None
        /\ scripts' = [scripts EXCEPT ![g] = change.script]
        /\ newest' = newest /\ before' = before
    BY <1>3 DEF Write, At
  <2>2. EditorTypes'
    BY <1>1, <2>1 DEF EditorTypes, At
  <2>3. ASSUME CreateBackup, NEW f \in Stems, Lone(f) PROVE History(f)'
    <3>1. History(f)
      BY <2>3
    <3>2. f = g => LatestIs(f, before[f])
      BY <1>1, <2>1, <3>1 DEF History, At
    <3>3. f # g => scripts'[f] = scripts[f]
      BY <1>1, <2>1 DEF EditorTypes
    <3> QED
      BY <1>1, <2>1, <3>1, <3>2, <3>3 DEF History, Numbered, LatestIs, At
  <2> QED
    BY <2>2, <2>3 DEF Lone
<1> QED
  BY <1>2, <1>3

(* The user puts a script there, or a backup in its place.                 *)
LEMMA UserKeeps ==
    ASSUME EditorInv, NEW g \in Stems, PutScript(g) \/ Revert(g)
    PROVE  EditorInv'
<1> USE DEF EditorInv
<1>1. PICK script : /\ scripts' = [scripts EXCEPT ![g] = script]
                    /\ \/ script = Generated /\ newest' = g
                       \/ /\ script \in {backups[g][n] : n \in DOMAIN backups[g]} \ {Torn}
                          /\ newest' \in {newest, g}
  <2>1. CASE PutScript(g)
    BY <2>1 DEF PutScript
  <2>2. CASE Revert(g)
    <3>1. PICK n \in DOMAIN backups[g] : /\ scripts' = [scripts EXCEPT ![g] = backups[g][n]]
                                         /\ backups[g][n] # Torn
      BY <2>2 DEF Revert
    <3>2. newest' \in {newest, g}
      BY <2>2 DEF Revert
    <3>3. backups[g][n] \in {backups[g][m] : m \in DOMAIN backups[g]} \ {Torn}
      BY <3>1
    <3> QED
      BY <3>1, <3>2, <3>3
  <2> QED
    BY <2>1, <2>2
<1>2. /\ change = None /\ change' = None /\ backups' = backups /\ made' = made
      /\ analysis' = analysis /\ before' = before
  BY DEF PutScript, Revert
<1>3. newest' \in Stems
  BY <1>1 DEF EditorTypes
<1>4. EditorTypes'
  BY <1>1, <1>2, <1>3 DEF EditorTypes, At
<1>5. ASSUME CreateBackup, NEW f \in Stems, Lone(f) PROVE History(f)'
  <2>1. History(f)
    BY <1>5
  <2>2. f = g => scripts'[f] # Torn
    BY <1>1, <2>1, EditorBounds DEF EditorTypes, History
  <2>3. f # g => scripts'[f] = scripts[f]
    BY <1>1 DEF EditorTypes
  <2> QED
    BY <1>2, <2>1, <2>2, <2>3 DEF History, Numbered, LatestIs, At
<1> QED
  BY <1>4, <1>5 DEF Lone

LEMMA EditorInductive == EditorSpec => []EditorInv
<1>1. EditorInit => EditorInv
  <2> SUFFICES ASSUME EditorInit PROVE EditorInv
    OBVIOUS
  <2>1. /\ \A f \in Stems : scripts[f] = None /\ DOMAIN backups[f] = {} /\ made[f] = 0
        /\ change = None /\ analysis = None /\ newest = None
    BY DEF EditorInit
  <2>2. EditorTypes
    <3>1. /\ DOMAIN scripts = Stems /\ DOMAIN backups = Stems /\ DOMAIN before = Stems
          /\ made \in [Stems -> Nat]
      BY DEF EditorInit
    <3> QED
      BY <2>1, <3>1 DEF EditorTypes, At
  <2>3. ASSUME NEW f \in Stems PROVE History(f)
    <3>1. None # Torn
      BY EditorAssumption
    <3>2. Numbered(f)
      <4>1. made[f] = 0 /\ DOMAIN backups[f] = {}
        BY <2>1
      <4>2. 0 \in 0 .. 0 /\ {} = 0 - 0 + 1 .. 0
        OBVIOUS
      <4> QED
        BY <2>1, <4>1, <4>2 DEF Numbered, At
    <3> QED
      BY <2>1, <3>1, <3>2 DEF History, At
  <2> QED
    BY <2>2, <2>3 DEF EditorInv
<1>2. EditorInv /\ [EditorNext]_editorVars => EditorInv'
  <2> SUFFICES ASSUME EditorInv, [EditorNext]_editorVars PROVE EditorInv'
    OBVIOUS
  <2>1. ASSUME NEW f \in Stems, PutScript(f) \/ Revert(f) PROVE EditorInv'
    BY <2>1, UserKeeps
  <2>2. ASSUME NEW f \in Stems, analyze_jmx_file(f) PROVE EditorInv'
    <3>1. analysis' = [of |-> f, script |-> scripts[f]] /\ scripts[f] # None
      BY <2>2 DEF analyze_jmx_file, Readable
    <3>2. /\ scripts' = scripts /\ newest' = newest /\ backups' = backups /\ change' = change
          /\ before' = before /\ made' = made
      BY <2>2 DEF analyze_jmx_file, disk
    <3>3. EditorTypes'
      BY <3>1, <3>2 DEF EditorInv, EditorTypes, At
    <3> QED
      BY <3>2, <3>3 DEF EditorInv, History, Numbered, LatestIs, At, Lone
  <2>3. CASE add_jmx_component \/ edit_jmx_component
    <3>1. /\ newest \in Stems /\ UNCHANGED <<disk, analysis, before, made>>
          /\ {"of", "script", "step", "copy"} \subseteq DOMAIN change'
          /\ change'.step = "backup"
          /\ change'.of \in Stems /\ Readable(change'.of)
      BY <2>3, ChangeBegins DEF EditorInv
    <3>2. scripts' = scripts /\ newest' = newest /\ backups' = backups
      BY <3>1 DEF disk
    <3>3. EditorTypes'
      BY <3>1, <3>2 DEF EditorInv, EditorTypes, At, Readable
    <3> QED
      BY <3>1, <3>2, <3>3 DEF EditorInv, History, Numbered, LatestIs, At, Lone
  <2>4. CASE BackUpScript \/ CopyScript \/ RemoveOldest \/ BackedUp \/ OpenToWrite \/ Write
    BY <2>4, BackUpKeeps, PruningKeeps, WritingKeeps
  <2>5. CASE CutShort
    <3>1. /\ change # None /\ change' = None /\ scripts' = scripts /\ newest' = newest
          /\ backups' = backups /\ analysis' = analysis /\ before' = before /\ made' = made
      BY <2>5 DEF CutShort, disk
    <3>2. EditorTypes'
      BY <3>1 DEF EditorInv, EditorTypes, At
    <3> QED
      BY <3>1, <3>2 DEF EditorInv, History, Numbered, LatestIs, At, Lone
  <2>6. CASE UNCHANGED editorVars
    <3>1. /\ change' = change /\ scripts' = scripts /\ newest' = newest
          /\ backups' = backups /\ analysis' = analysis /\ before' = before /\ made' = made
      BY <2>6 DEF editorVars, disk
    <3> QED
      BY <3>1 DEF EditorInv, EditorTypes, History, Numbered, LatestIs, At, Lone
  <2> QED
    BY <2>1, <2>2, <2>3, <2>4, <2>5, <2>6 DEF EditorNext
<1> QED
  BY <1>1, <1>2, PTL DEF EditorSpec

(* The backups of a script that are listed apart from or after all others' *)
(* are its history: the last ones made, no number missing and none gone    *)
(* that should be kept, however many calls were cut short between a copy   *)
(* and the removals; none is one too many when the script is written, and  *)
(* one that is torn is in its latest backup.                               *)
THEOREM BackupsAreHistory == EditorSpec => []BackupsAreTheHistory
<1>1. ASSUME EditorInv, CreateBackup, NEW f \in Stems, Lone(f)
      PROVE  Numbered(f) /\ Recoverable(f)
  <2>1. History(f) /\ Numbered(f) /\ made[f] \in Nat
    BY <1>1 DEF EditorInv, EditorTypes, History
  <2>2. ASSUME scripts[f] = Torn
        PROVE  DOMAIN backups[f] # {} /\ backups[f][Max(DOMAIN backups[f])] = before[f]
    <3>1. made[f] \in DOMAIN backups[f] /\ backups[f][made[f]] = before[f]
      BY <2>1, <2>2 DEF History, LatestIs
    <3>2. \A n \in DOMAIN backups[f] : n \in Nat /\ n <= made[f]
      BY <2>1, NumbersRun
    <3>3. Max(DOMAIN backups[f]) = made[f]
      BY <2>1, <3>1, <3>2 DEF Max
    <3> QED
      BY <3>1, <3>3
  <2> QED
    BY <2>1, <2>2 DEF Recoverable
<1>2. EditorInv => BackupsAreTheHistory
  BY <1>1 DEF BackupsAreTheHistory
<1> QED
  BY <1>2, EditorInductive, PTL

-----------------------------------------------------------------------------
(* Scripts and the ids of their elements.                                  *)

Nodes == [el : Nat \ {0}, class : STRING, name : STRING, parent : Nat]

\* A tree whose elements have numbers up to some top.
IsScript(script) == /\ script \in Scripts /\ IsTree(script)
                    /\ \E top \in Nat : \A e \in Elements(script) : e <= top

(* An element is found at the one place where it is.                       *)
LEMMA Placed ==
    ASSUME NEW script, IsScript(script)
    PROVE  /\ Len(script) \in Nat /\ DOMAIN script = 1 .. Len(script)
           /\ Elements(script) = {script[i].el : i \in DOMAIN script}
           /\ \A i \in DOMAIN script : script[i] \in Nodes /\ Place(script, script[i].el) = i
           /\ \A e \in Elements(script) :
                  /\ e \in Nat \ {0} /\ Place(script, e) \in DOMAIN script
                  /\ Node(script, e) \in Nodes /\ Node(script, e).el = e
                  /\ Node(script, e).parent \in Elements(script) \cup {Top}
                  /\ Node(script, e).parent < e
<1>1. script \in Seq(Nodes) /\ IsTree(script)
  BY DEF IsScript, Scripts, Nodes
<1>2. /\ Len(script) \in Nat /\ DOMAIN script = 1 .. Len(script)
      /\ \A i \in DOMAIN script : script[i] \in Nodes
  BY <1>1, LenProperties
<1>3. Elements(script) = {script[i].el : i \in DOMAIN script}
  BY DEF Elements, ToSet
<1>4. ASSUME NEW i \in DOMAIN script PROVE Place(script, script[i].el) = i
  BY <1>1 DEF Place, IsTree
<1>5. ASSUME NEW e \in Elements(script)
      PROVE  /\ e \in Nat \ {0} /\ Place(script, e) \in DOMAIN script
             /\ Node(script, e) \in Nodes /\ Node(script, e).el = e
             /\ Node(script, e).parent \in Elements(script) \cup {Top}
             /\ Node(script, e).parent < e
  <2>1. PICK i \in DOMAIN script : e = script[i].el
    BY <1>3
  <2>2. Place(script, e) = i /\ Node(script, e) = script[i]
    BY <1>4, <2>1 DEF Node
  <2>3. script[i] \in Nodes /\ e \in Nat \ {0}
    BY <1>2, <2>1 DEF Nodes
  <2> QED
    BY <1>1, <2>1, <2>2, <2>3 DEF IsTree
<1> QED
  BY <1>2, <1>3, <1>4, <1>5

LEMMA PlaceIs ==
    ASSUME NEW script, IsScript(script), NEW i \in DOMAIN script, NEW e, script[i].el = e
    PROVE  Place(script, e) = i
  BY Placed

(* What holds of an element where it holds of its parent holds of all.     *)
LEMMA FromTheTop ==
    ASSUME NEW script, IsScript(script), NEW Q,
           \A e \in Elements(script) :
               Node(script, e).parent = Top \/ Node(script, e).parent \in Q => e \in Q
    PROVE  \A e \in Elements(script) : e \in Q
<1> DEFINE S == {e \in Elements(script) : e \notin Q}
<1> SUFFICES ASSUME S # {} PROVE FALSE
  OBVIOUS
<1>1. PICK m \in S : \A n \in S : m <= n
  <2>1. S \in SUBSET Nat
    BY Placed
  <2> HIDE DEF S
  <2> QED
    BY <2>1, LeastNumber
<1>2. /\ Node(script, m).parent \in Elements(script) \cup {Top}
      /\ Node(script, m).parent < m /\ m \in Nat
      /\ \A e \in Elements(script) : e \in Nat
  BY Placed
<1>3. Node(script, m).parent \notin S
  <2> DEFINE p == Node(script, m).parent
  <2> SUFFICES ASSUME p \in S PROVE FALSE
    OBVIOUS
  <2>1. m <= p /\ p < m /\ p \in Nat /\ m \in Nat
    BY <1>1, <1>2
  <2> HIDE DEF p
  <2> QED
    BY <2>1
<1> QED
  BY <1>1, <1>2, <1>3

\* An element's part of the path to it.
Here(script, e) == <<Node(script, e).class, Index(script, e)>>

(* The path to an element goes on from that to its parent.                 *)
LEMMA PathsGoOn ==
    ASSUME NEW script, IsScript(script)
    PROVE  LET path == Paths(script)
           IN  \A e \in Elements(script) :
                   path[e] = IF Node(script, e).parent = Top THEN <<Here(script, e)>>
                             ELSE Append(path[Node(script, e).parent], Here(script, e))
<1> DEFINE Step(g, e) == IF Node(script, e).parent = Top THEN <<Here(script, e)>>
                         ELSE Append(g[Node(script, e).parent], Here(script, e))
           Upto(m) == {e \in Elements(script) : e <= m}
           S == {m \in Nat : ~\E g : g = [e \in Upto(m) |-> Step(g, e)]}
<1>1. \A e \in Elements(script) :
          /\ e \in Nat \ {0} /\ Node(script, e).parent < e
          /\ Node(script, e).parent \in Elements(script) \cup {Top}
  BY Placed
<1>2. S = {}
  <2> SUFFICES ASSUME S # {} PROVE FALSE
    OBVIOUS
  <2>1. PICK m \in S : \A n \in S : m <= n
    <3>1. S \in SUBSET Nat
      OBVIOUS
    <3> HIDE DEF S
    <3> QED
      BY <3>1, LeastNumber
  <2>2. m # 0
    <3>1. Upto(0) = {}
      BY <1>1
    <3> DEFINE g == [e \in {} |-> Top]
    <3>2. g = [e \in {} |-> Step(g, e)]
      OBVIOUS
    <3> HIDE DEF g, Step
    <3>3. \E a : a = [e \in Upto(0) |-> Step(a, e)]
      BY <3>1, <3>2
    <3> QED
      BY <3>3
  <2>3. m - 1 \in Nat /\ m - 1 \notin S
    <3>1. m - 1 \in Nat /\ ~(m <= m - 1)
      BY <2>2
    <3> HIDE DEF S
    <3> QED
      BY <2>1, <3>1
  <2>4. PICK g : g = [e \in Upto(m - 1) |-> Step(g, e)]
    BY <2>3
  <2> DEFINE h == [e \in Upto(m) |-> Step(g, e)]
  <2>5. ASSUME NEW e \in Upto(m) PROVE h[e] = Step(h, e)
    <3> HIDE DEF Step
    <3>1. e \in Elements(script) /\ h[e] = Step(g, e)
      OBVIOUS
    <3>2. CASE Node(script, e).parent = Top
      BY <3>1, <3>2 DEF Step
    <3>3. CASE Node(script, e).parent # Top
      <4> DEFINE p == Node(script, e).parent
      <4>1. p \in Upto(m - 1) /\ p \in Upto(m)
        <5>1. p \in Elements(script) /\ p < e /\ e \in Nat /\ p \in Nat
          BY <1>1, <3>1, <3>3
        <5>2. e <= m /\ m \in Nat
          OBVIOUS
        <5> HIDE DEF p
        <5> QED
          BY <5>1, <5>2
      <4> HIDE DEF p
      <4>2. g[p] = h[p]
        BY <2>4, <4>1
      <4> QED
        BY <3>1, <3>3, <4>2 DEF Step, p
    <3> QED
      BY <3>2, <3>3
  <2>6. h = [e \in Upto(m) |-> Step(h, e)]
    BY <2>5
  <2> HIDE DEF h, Step, Upto
  <2>7. \E a : a = [e \in Upto(m) |-> Step(a, e)]
    BY <2>6
  <2> QED
    BY <2>1, <2>7
<1>3. \E g : g = [e \in Elements(script) |-> Step(g, e)]
  <2>1. PICK top \in Nat : \A e \in Elements(script) : e <= top
    BY DEF IsScript
  <2>2. Upto(top) = Elements(script)
    BY <2>1
  <2>3. top \notin S
    BY <1>2
  <2>4. \E g : g = [e \in Upto(top) |-> Step(g, e)]
    BY <2>3
  <2> HIDE DEF Step, Upto
  <2> QED
    BY <2>2, <2>4
<1> DEFINE path == CHOOSE g : g = [e \in Elements(script) |-> Step(g, e)]
<1>4. path = [e \in Elements(script) |-> Step(path, e)]
  BY <1>3
<1>5. Paths(script) = path
  BY DEF Paths, Here
<1> QED
  BY <1>4, <1>5

(* Paths are sequences, none of them empty.                                *)
LEMMA PathsAreSequences ==
    ASSUME NEW script, IsScript(script)
    PROVE  \E T : \A e \in Elements(script) : /\ Paths(script)[e] \in Seq(T)
                                              /\ Len(Paths(script)[e]) \in Nat
                                              /\ Len(Paths(script)[e]) >= 1
<1> DEFINE path == Paths(script)
           T == {Here(script, a) : a \in Elements(script)}
           Q == {a \in Elements(script) : path[a] \in Seq(T) /\ Len(path[a]) >= 1}
<1>1. \A a \in Elements(script) :
          path[a] = IF Node(script, a).parent = Top THEN <<Here(script, a)>>
                    ELSE Append(path[Node(script, a).parent], Here(script, a))
  BY PathsGoOn
<1> HIDE DEF path
<1>2. ASSUME NEW a \in Elements(script),
             Node(script, a).parent = Top \/ Node(script, a).parent \in Q
      PROVE  a \in Q
  <2> DEFINE h == Here(script, a)
             up == path[Node(script, a).parent]
  <2>1. h \in T
    OBVIOUS
  <2>2. path[a] = <<h>> \/ (up \in Seq(T) /\ path[a] = Append(up, h))
    BY <1>1, <1>2
  <2> HIDE DEF h, T, up
  <2>3. path[a] \in Seq(T) /\ Len(path[a]) >= 1
    <3>1. CASE path[a] = <<h>>
      <4>1. <<h>> \in Seq(T) /\ Len(<<h>>) = 1
        BY <2>1
      <4> QED
        BY <3>1, <4>1
    <3>2. CASE up \in Seq(T) /\ path[a] = Append(up, h)
      <4>1. Append(up, h) \in Seq(T) /\ Len(Append(up, h)) = Len(up) + 1 /\ Len(up) \in Nat
        BY <2>1, <3>2, LenProperties
      <4> QED
        BY <3>2, <4>1
    <3> QED
      BY <2>2, <3>1, <3>2
  <2> QED
    BY <2>3
<1>3. \A a \in Elements(script) : a \in Q
  <2> HIDE DEF Q
  <2> QED
    BY <1>2, FromTheTop
<1>4. \A a \in Elements(script) :
          path[a] \in Seq(T) /\ Len(path[a]) \in Nat /\ Len(path[a]) >= 1
  <2> HIDE DEF T
  <2> QED
    BY <1>3, LenProperties
<1> HIDE DEF T
<1> QED
  BY <1>4 DEF path

(* An element is above itself, and what is above its parent is above it.   *)
LEMMA AboveGoesOn ==
    ASSUME NEW script, IsScript(script), NEW e \in Elements(script)
    PROVE  /\ e \in Above(script, e)
           /\ Node(script, e).parent # Top =>
                  Above(script, Node(script, e).parent) \subseteq Above(script, e)
<1> DEFINE path == Paths(script)
           p == Node(script, e).parent
<1>1. \A a \in Elements(script) :
          path[a] = IF Node(script, a).parent = Top THEN <<Here(script, a)>>
                    ELSE Append(path[Node(script, a).parent], Here(script, a))
  BY PathsGoOn
<1>2. PICK T : \A a \in Elements(script) : /\ path[a] \in Seq(T) /\ Len(path[a]) \in Nat
                                           /\ Len(path[a]) >= 1
  BY PathsAreSequences
<1> HIDE DEF path
<1>3. \A a \in Elements(script) :
          /\ path[a] \in Seq(T) /\ Len(path[a]) \in Nat /\ Len(path[a]) >= 1
          /\ path[a] = SubSeq(path[a], 1, Len(path[a]))
  BY <1>2
<1>4. e \in Above(script, e)
  <2>1. Len(path[e]) \in 1 .. Len(path[e]) /\ path[e] = SubSeq(path[e], 1, Len(path[e]))
    <3>1. Len(path[e]) \in Nat /\ Len(path[e]) >= 1
      BY <1>3
    <3>2. Len(path[e]) \in 1 .. Len(path[e])
      BY <3>1
    <3> QED
      BY <1>3, <3>2
  <2> QED
    BY <2>1 DEF Above, path
<1>5. ASSUME p # Top, NEW a \in Above(script, p) PROVE a \in Above(script, e)
  <2>1. p \in Elements(script)
    BY <1>5, Placed
  <2>2. path[e] = Append(path[p], Here(script, e))
    BY <1>1, <1>5
  <2>3. PICK n \in 1 .. Len(path[p]) : path[a] = SubSeq(path[p], 1, n)
    BY <1>5 DEF Above, path
  <2>4. Len(path[e]) = Len(path[p]) + 1 /\ SubSeq(path[e], 1, n) = SubSeq(path[p], 1, n)
    <3> DEFINE up == path[p]
               h == Here(script, e)
               U == T \cup {h}
    <3>1. up \in Seq(U) /\ h \in U /\ n \in 1 .. Len(up)
      BY <1>3, <2>1, <2>3
    <3> HIDE DEF up, h, U
    <3>2. Len(Append(up, h)) = Len(up) + 1
      BY <3>1
    <3>3. \A i \in 1 .. n : Append(up, h)[i] = up[i]
      BY <3>1
    <3>4. SubSeq(Append(up, h), 1, n) = SubSeq(up, 1, n)
      BY <3>1, <3>2, <3>3
    <3> QED
      BY <2>2, <3>2, <3>4 DEF up, h
  <2>5. Len(path[p]) \in Nat
    BY <1>3, <2>1
  <2>6. n \in 1 .. Len(path[e]) /\ path[a] = SubSeq(path[e], 1, n)
    BY <2>3, <2>4, <2>5
  <2> QED
    BY <1>5, <2>6 DEF Above, path
<1> QED
  BY <1>4, <1>5

(* Of two elements of one class beside each other the later has the higher *)
(* index.                                                                  *)
LEMMA LaterIsHigher ==
    ASSUME NEW script, IsScript(script), NEW d \in Elements(script), NEW e \in Elements(script),
           Node(script, d).parent = Node(script, e).parent,
           Node(script, d).class = Node(script, e).class,
           Place(script, d) < Place(script, e)
    PROVE  Index(script, d) # Index(script, e)
<1> DEFINE Before(x) == {i \in Beside(script, x) : /\ i < Place(script, x)
                                                   /\ script[i].class = Node(script, x).class}
           p == Place(script, d)
<1>1. /\ p \in DOMAIN script /\ script[p] = Node(script, d)
      /\ Place(script, e) \in DOMAIN script /\ DOMAIN script = 1 .. Len(script)
      /\ Len(script) \in Nat
  BY Placed DEF Node
<1>2. p \in Before(e) /\ p \notin Before(d)
  BY <1>1 DEF Beside
<1>3. Before(d) \subseteq Before(e)
  BY <1>1 DEF Beside
<1>4. IsFiniteSet(Before(e))
  <2>1. IsFiniteSet(DOMAIN script) /\ Before(e) \in SUBSET DOMAIN script
    BY <1>1, FS_Interval DEF Beside
  <2> QED
    BY <2>1, FS_Subset
<1>5. Index(script, d) = Cardinality(Before(d)) /\ Index(script, e) = Cardinality(Before(e))
  BY DEF Index
<1> HIDE DEF Before
<1>6. Cardinality(Before(e)) # Cardinality(Before(d))
  BY <1>2, <1>3, <1>4, FS_Subset
<1> QED
  BY <1>5, <1>6

(* No two elements have the same path.                                     *)
LEMMA PathsDiffer ==
    ASSUME NEW script, IsScript(script)
    PROVE  \A d, e \in Elements(script) : Paths(script)[d] = Paths(script)[e] => d = e
<1> DEFINE path == Paths(script)
           Q == {d \in Elements(script) : \A e \in Elements(script) : path[d] = path[e] => d = e}
<1>1. \A a \in Elements(script) :
          /\ path[a] = IF Node(script, a).parent = Top THEN <<Here(script, a)>>
                       ELSE Append(path[Node(script, a).parent], Here(script, a))
          /\ Node(script, a).parent \in Elements(script) \cup {Top}
  BY PathsGoOn, Placed
<1>2. PICK T : \A a \in Elements(script) : /\ path[a] \in Seq(T) /\ Len(path[a]) \in Nat
                                           /\ Len(path[a]) >= 1
  BY PathsAreSequences
<1> HIDE DEF path
<1>3. ASSUME NEW d \in Elements(script),
             Node(script, d).parent = Top \/ Node(script, d).parent \in Q,
             NEW e \in Elements(script), path[d] = path[e]
      PROVE  d = e
  <2> DEFINE up == Node(script, d).parent
             over == Node(script, e).parent
  <2>1. up = over /\ Here(script, d) = Here(script, e)
    <3> DEFINE U == T \cup {Here(script, d), Here(script, e)}
    <3>1. /\ Here(script, d) \in U /\ Here(script, e) \in U
          /\ \A a \in Elements(script) : path[a] \in Seq(U)
      BY <1>2
    <3> HIDE DEF U
    <3>2. \A a \in {d, e} : Node(script, a).parent # Top => Len(path[a]) >= 2
      <4>1. ASSUME NEW a \in {d, e}, Node(script, a).parent # Top PROVE Len(path[a]) >= 2
        <5> DEFINE p == Node(script, a).parent
                   h == Here(script, a)
                   s == path[p]
        <5>1. p \in Elements(script) /\ path[a] = Append(s, h)
          BY <1>1, <4>1
        <5>2. s \in Seq(U) /\ h \in U /\ Len(s) \in Nat /\ Len(s) >= 1
          BY <1>2, <3>1, <5>1
        <5> HIDE DEF s, h, p
        <5> QED
          BY <5>1, <5>2, AppendProperties
      <4> QED
        BY <4>1
    <3>3. \A a \in {d, e} : Node(script, a).parent = Top =>
              path[a] = <<Here(script, a)>> /\ Len(path[a]) = 1
      <4>1. ASSUME NEW a \in {d, e}, Node(script, a).parent = Top
            PROVE  path[a] = <<Here(script, a)>> /\ Len(path[a]) = 1
        <5> DEFINE h == Here(script, a)
        <5>1. path[a] = <<h>>
          BY <1>1, <4>1
        <5> HIDE DEF h
        <5>2. Len(<<h>>) = 1
          OBVIOUS
        <5> QED
          BY <5>1, <5>2 DEF h
      <4> QED
        BY <4>1
    <3>4. up = Top <=> over = Top
      <4> DEFINE n == Len(path[d])
      <4>1. /\ up = Top => n = 1
            /\ up # Top => n >= 2
        BY <3>2, <3>3
      <4>2. /\ over = Top => n = 1
            /\ over # Top => n >= 2
        BY <1>3, <3>2, <3>3
      <4> HIDE DEF up, over, n
      <4> QED
        BY <4>1, <4>2
    <3>5. CASE up = Top
      <4> DEFINE h == Here(script, d)
                 k == Here(script, e)
      <4>1. <<h>> = <<k>>
        BY <1>3, <3>3, <3>4, <3>5
      <4> HIDE DEF h, k
      <4>2. h = k
        BY <4>1
      <4> QED
        BY <3>4, <3>5, <4>2 DEF h, k
    <3>6. CASE up # Top
      <4>1. /\ path[d] = Append(path[up], Here(script, d))
            /\ path[e] = Append(path[over], Here(script, e))
            /\ up \in Elements(script) /\ over \in Elements(script)
        BY <1>1, <3>4, <3>6
      <4>2. path[up] = path[over] /\ Here(script, d) = Here(script, e)
        <5> DEFINE s == path[up]
                   t == path[over]
                   h == Here(script, d)
                   k == Here(script, e)
        <5>1. s \in Seq(U) /\ t \in Seq(U) /\ h \in U /\ k \in U
          BY <3>1, <4>1
        <5>2. Append(s, h) = Append(t, k)
          BY <1>3, <4>1
        <5> HIDE DEF s, t, h, k, U
        <5>3. s = t /\ h = k
          BY <5>1, <5>2, AppendInjective
        <5> QED
          BY <5>3 DEF s, t, h, k
      <4> HIDE DEF up, over
      <4>3. up \in Q
        BY <1>3, <3>6 DEF up
      <4> QED
        BY <4>1, <4>2, <4>3
    <3> QED
      BY <3>5, <3>6
  <2>2. Node(script, d).class = Node(script, e).class /\ Index(script, d) = Index(script, e)
    BY <2>1 DEF Here
  <2>3. /\ Place(script, d) \in Nat /\ Place(script, e) \in Nat
        /\ Node(script, d).el = d /\ Node(script, e).el = e
    BY Placed
  <2>4. Place(script, d) = Place(script, e)
    BY <2>1, <2>2, <2>3, LaterIsHigher
  <2> QED
    BY <2>3, <2>4 DEF Node
<1>4. \A d \in Elements(script) : d \in Q
  <2> HIDE DEF Q
  <2>1. ASSUME NEW d \in Elements(script),
               Node(script, d).parent = Top \/ Node(script, d).parent \in Q
        PROVE  d \in Q
    BY <1>3, <2>1 DEF Q
  <2> QED
    BY <2>1, FromTheTop
<1> QED
  BY <1>4 DEF path

(* A script changed in its classes and parents nowhere, and in its indices *)
(* only of disturbed elements, has its paths but for those below these.    *)
LEMMA PathsStay ==
    ASSUME NEW old, NEW new, IsScript(old), IsScript(new),
           Elements(old) \subseteq Elements(new), NEW Disturbed,
           \A e \in Elements(old) : /\ Node(new, e).class = Node(old, e).class
                                    /\ Node(new, e).parent = Node(old, e).parent
                                    /\ e \in Disturbed \/ Index(new, e) = Index(old, e)
    PROVE  \A e \in Elements(old) :
               \/ Paths(new)[e] = Paths(old)[e]
               \/ \E a \in Above(old, e) : a \in Disturbed
<1> DEFINE Q == {e \in Elements(old) : \/ Paths(new)[e] = Paths(old)[e]
                                       \/ \E a \in Above(old, e) : a \in Disturbed}
<1>1. ASSUME NEW e \in Elements(old), Node(old, e).parent = Top \/ Node(old, e).parent \in Q
      PROVE  e \in Q
  <2> DEFINE p == Node(old, e).parent
  <2>1. e \in Above(old, e) /\ (p # Top => Above(old, p) \subseteq Above(old, e))
    BY AboveGoesOn
  <2>2. CASE e \in Disturbed
    BY <2>1, <2>2
  <2>3. CASE p # Top /\ \E a \in Above(old, p) : a \in Disturbed
    BY <2>1, <2>3
  <2>4. CASE e \notin Disturbed /\ ~(p # Top /\ \E a \in Above(old, p) : a \in Disturbed)
    <3>1. Here(new, e) = Here(old, e) /\ Node(new, e).parent = p
      BY <2>4 DEF Here
    <3>2. p = Top \/ Paths(new)[p] = Paths(old)[p]
      BY <1>1, <2>4
    <3>3. Paths(old)[e] = IF p = Top THEN <<Here(old, e)>>
                          ELSE Append(Paths(old)[p], Here(old, e))
      BY PathsGoOn
    <3>4. Paths(new)[e] = IF p = Top THEN <<Here(new, e)>>
                          ELSE Append(Paths(new)[p], Here(new, e))
      BY <3>1, PathsGoOn
    <3>5. Paths(new)[e] = Paths(old)[e]
      BY <3>1, <3>2, <3>3, <3>4
    <3> QED
      BY <3>5
  <2> QED
    BY <2>2, <2>3, <2>4
<1>2. \A e \in Elements(old) : e \in Q
  <2> HIDE DEF Q
  <2> QED
    BY <1>1, FromTheTop
<1> QED
  BY <1>2

\* An element that may be added to a script.
IsNewIn(node, old) ==
    /\ node \in Nodes /\ node.el \notin Elements(old)
    /\ node.parent \in Elements(old) /\ node.parent < node.el

(* A script with elements renamed.                                         *)
LEMMA Renamed ==
    ASSUME NEW old, IsScript(old), NEW new \in Seq(Nodes), DOMAIN new = DOMAIN old,
           \A j \in DOMAIN old : /\ new[j].el = old[j].el /\ new[j].class = old[j].class
                                 /\ new[j].parent = old[j].parent
    PROVE  /\ IsScript(new) /\ Elements(new) = Elements(old)
           /\ \A e \in Elements(old) : /\ Node(new, e).class = Node(old, e).class
                                       /\ Node(new, e).parent = Node(old, e).parent
                                       /\ Index(new, e) = Index(old, e)
<1>1. IsTree(old) /\ DOMAIN new = DOMAIN old
  BY DEF IsScript
<1>2. \A j \in DOMAIN old : /\ new[j].el = old[j].el /\ new[j].class = old[j].class
                            /\ new[j].parent = old[j].parent
  OBVIOUS
<1>3. Elements(new) = Elements(old)
  <2>1. /\ Elements(new) = {new[j].el : j \in DOMAIN new}
        /\ Elements(old) = {old[j].el : j \in DOMAIN old}
    BY DEF Elements, ToSet
  <2> QED
    BY <1>1, <1>2, <2>1
<1>4. IsScript(new)
  <2>1. IsTree(new)
    BY <1>1, <1>2, <1>3 DEF IsTree
  <2> QED
    BY <1>3, <2>1 DEF IsScript, Scripts, Nodes
<1>5. ASSUME NEW e \in Elements(old)
      PROVE  /\ Node(new, e).class = Node(old, e).class
             /\ Node(new, e).parent = Node(old, e).parent
             /\ Index(new, e) = Index(old, e)
  <2>1. Place(old, e) \in DOMAIN old /\ old[Place(old, e)].el = e
    BY Placed DEF Node
  <2>2. Place(new, e) = Place(old, e)
    <3> DEFINE p == Place(old, e)
    <3>1. p \in DOMAIN new /\ new[p].el = e
      BY <1>1, <1>2, <2>1
    <3> HIDE DEF p
    <3> QED
      BY <1>4, <3>1, PlaceIs DEF p
  <2>3. /\ Node(new, e).class = Node(old, e).class
        /\ Node(new, e).parent = Node(old, e).parent
    BY <1>2, <2>1, <2>2 DEF Node
  <2>4. Beside(new, e) = Beside(old, e) /\ Beside(old, e) \subseteq DOMAIN old
    BY <1>1, <1>2, <2>3 DEF Beside
  <2>5. {j \in Beside(new, e) : j < Place(new, e) /\ new[j].class = Node(new, e).class}
            = {j \in Beside(old, e) : j < Place(old, e) /\ old[j].class = Node(old, e).class}
    BY <1>2, <2>2, <2>3, <2>4
  <2> QED
    BY <2>3, <2>5 DEF Index
<1> QED
  BY <1>3, <1>4, <1>5

(* A script with an element added last.                                    *)
LEMMA Appended ==
    ASSUME NEW old, IsScript(old), NEW node, IsNewIn(node, old),
           NEW new, new = Append(old, node)
    PROVE  /\ IsScript(new) /\ Elements(new) = Elements(old) \cup {node.el}
           /\ \A e \in Elements(old) : /\ Node(new, e) = Node(old, e)
                                       /\ Index(new, e) = Index(old, e)
<1>1. old \in Seq(Nodes) /\ IsTree(old) /\ node \in Nodes
  BY DEF IsScript, Scripts, Nodes, IsNewIn
<1>2. Len(old) \in Nat /\ DOMAIN old = 1 .. Len(old)
  BY Placed
<1>3. /\ new \in Seq(Nodes) /\ DOMAIN new = 1 .. Len(old) + 1
      /\ new[Len(old) + 1] = node /\ \A j \in DOMAIN old : new[j] = old[j]
  BY <1>1, <1>2
<1>4. Elements(new) = Elements(old) \cup {node.el}
  BY <1>2, <1>3 DEF Elements, ToSet
<1>5. IsScript(new)
  <2>1. \A j \in DOMAIN new : j \in DOMAIN old \/ j = Len(old) + 1
    BY <1>2, <1>3
  <2>2. \A j \in DOMAIN old : old[j].el \in Elements(old) /\ old[j].el # node.el
    BY DEF Elements, ToSet, IsNewIn
  <2>3. IsTree(new)
    BY <1>1, <1>3, <1>4, <2>1, <2>2 DEF IsTree, IsNewIn
  <2>4. \E top \in Nat : \A e \in Elements(new) : e <= top
    <3>1. PICK top \in Nat : \A e \in Elements(old) : e <= top
      BY DEF IsScript
    <3>2. node.el \in Nat /\ \A e \in Elements(old) : e \in Nat
      BY <1>1, Placed DEF Nodes
    <3>3. top + node.el \in Nat /\ \A e \in Elements(new) : e <= top + node.el
      BY <1>4, <3>1, <3>2
    <3> QED
      BY <3>3
  <2> QED
    BY <1>3, <2>3, <2>4 DEF IsScript, Scripts, Nodes
<1>6. ASSUME NEW e \in Elements(old)
      PROVE  Node(new, e) = Node(old, e) /\ Index(new, e) = Index(old, e)
  <2>1. Place(old, e) \in DOMAIN old /\ old[Place(old, e)].el = e
    BY Placed DEF Node
  <2>2. Place(new, e) = Place(old, e)
    <3> DEFINE p == Place(old, e)
    <3>1. p \in DOMAIN new /\ new[p].el = e
      BY <1>2, <1>3, <2>1
    <3> HIDE DEF p
    <3>2. Place(new, e) = p
      BY <1>5, <3>1, PlaceIs
    <3> QED
      BY <3>2 DEF p
  <2>3. Node(new, e) = Node(old, e)
    BY <1>3, <2>1, <2>2 DEF Node
  <2>4. {j \in Beside(new, e) : j < Place(new, e) /\ new[j].class = Node(new, e).class}
            = {j \in Beside(old, e) : j < Place(old, e) /\ old[j].class = Node(old, e).class}
    <3> DEFINE p == Place(old, e)
               n == Node(old, e)
    <3>1. p \in 1 .. Len(old)
      BY <1>2, <2>1
    <3> HIDE DEF p, n
    <3>2. {j \in DOMAIN new : j < p} = {j \in DOMAIN old : j < p}
      BY <1>2, <1>3, <3>1
    <3> QED
      BY <1>3, <2>2, <2>3, <3>2 DEF Beside, p, n
  <2> QED
    BY <2>3, <2>4 DEF Index
<1> QED
  BY <1>4, <1>5, <1>6

(* Positions that are one further are as many.                             *)
LEMMA ShiftedAreAsMany ==
    ASSUME NEW n \in Nat, NEW S \in SUBSET (1 .. n), NEW T, T = {j + 1 : j \in S}
    PROVE  Cardinality(T) = Cardinality(S)
<1> DEFINE shift == [j \in S |-> j + 1]
<1>1. shift \in Bijection(S, T)
  <2>1. shift \in [S -> T]
    OBVIOUS
  <2>2. \A j, k \in S : shift[j] = shift[k] => j = k
    OBVIOUS
  <2>3. \A t \in T : \E j \in S : shift[j] = t
    OBVIOUS
  <2> QED
    BY <2>1, <2>2, <2>3 DEF Bijection, Injection, IsInjective, Surjection
<1>2. IsFiniteSet(S)
  <2>1. IsFiniteSet(1 .. n)
    BY FS_Interval
  <2> QED
    BY <2>1, FS_Subset
<1>3. ExistsBijection(S, T)
  BY <1>1 DEF ExistsBijection
<1> QED
  BY <1>2, <1>3, FS_Bijection

AddedFirst(node, old) == <<node>> \o old

(* A script with an element added first.                                   *)
LEMMA Prepended ==
    ASSUME NEW old, IsScript(old), NEW node, IsNewIn(node, old),
           NEW new, new = AddedFirst(node, old)
    PROVE  /\ IsScript(new) /\ Elements(new) = Elements(old) \cup {node.el}
           /\ Head(new) = node
           /\ \A e \in Elements(old) :
                  /\ Node(new, e) = Node(old, e)
                  /\ \/ Index(new, e) = Index(old, e)
                     \/ /\ Node(old, e).parent = node.parent
                        /\ Node(old, e).class = node.class
<1>1. old \in Seq(Nodes) /\ IsTree(old) /\ node \in Nodes
  BY DEF IsScript, Scripts, Nodes, IsNewIn
<1>2. Len(old) \in Nat /\ DOMAIN old = 1 .. Len(old)
  BY Placed
<1>3. /\ new \in Seq(Nodes) /\ DOMAIN new = 1 .. Len(old) + 1
      /\ new[1] = node /\ \A j \in DOMAIN old : new[j + 1] = old[j]
  <2>1. <<node>> \in Seq(Nodes) /\ Len(<<node>>) = 1 /\ <<node>>[1] = node
    BY <1>1
  <2>2. /\ new \in Seq(Nodes) /\ Len(new) = 1 + Len(old)
        /\ \A j \in 1 .. 1 + Len(old) : new[j] = IF j <= 1 THEN <<node>>[j] ELSE old[j - 1]
    BY <1>1, <2>1, ConcatProperties DEF AddedFirst
  <2>3. DOMAIN new = 1 .. Len(new)
    BY <2>2, LenProperties
  <2>4. ASSUME NEW j \in DOMAIN old PROVE new[j + 1] = old[j]
    <3>1. j \in Nat /\ j + 1 \in 1 .. 1 + Len(old) /\ ~(j + 1 <= 1) /\ (j + 1) - 1 = j
      BY <1>2
    <3> QED
      BY <2>2, <3>1
  <2>5. new[1] = node
    BY <1>2, <2>1, <2>2
  <2> QED
    BY <1>2, <2>2, <2>3, <2>4, <2>5
<1>4. Head(new) = node
  BY <1>2, <1>3
<1>5. \A j \in DOMAIN new :
          j = 1 \/ (j - 1 \in DOMAIN old /\ new[j] = old[j - 1] /\ (j - 1) + 1 = j)
  <2> SUFFICES ASSUME NEW j \in DOMAIN new, j # 1
               PROVE  j - 1 \in DOMAIN old /\ new[j] = old[j - 1] /\ (j - 1) + 1 = j
    OBVIOUS
  <2>1. j - 1 \in DOMAIN old /\ (j - 1) + 1 = j
    BY <1>2, <1>3
  <2> QED
    BY <1>3, <2>1
<1>6. \A j \in DOMAIN old : j + 1 \in DOMAIN new
  BY <1>2, <1>3
<1>7. Elements(new) = Elements(old) \cup {node.el}
  <2>1. /\ Elements(new) = {new[j].el : j \in DOMAIN new}
        /\ Elements(old) = {old[j].el : j \in DOMAIN old}
    BY DEF Elements, ToSet
  <2>2. 1 \in DOMAIN new
    BY <1>2, <1>3
  <2> QED
    <3>1. ASSUME NEW j \in DOMAIN new PROVE new[j].el \in Elements(old) \cup {node.el}
      BY <1>3, <1>5, <2>1
    <3>2. ASSUME NEW j \in DOMAIN old PROVE old[j].el \in Elements(new)
      <4>1. j + 1 \in DOMAIN new /\ new[j + 1].el = old[j].el
        BY <1>3, <1>6
      <4> QED
        BY <2>1, <4>1
    <3>3. node.el \in Elements(new)
      BY <1>3, <2>1, <2>2
    <3>4. Elements(new) \subseteq Elements(old) \cup {node.el}
      BY <2>1, <3>1
    <3>5. Elements(old) \subseteq Elements(new)
      BY <2>1, <3>2
    <3> QED
      BY <3>3, <3>4, <3>5
<1>8. IsScript(new)
  <2>1. \A j \in DOMAIN old : old[j].el \in Elements(old) /\ old[j].el # node.el
    BY DEF Elements, ToSet, IsNewIn
  <2>2. ASSUME NEW j \in DOMAIN new, NEW k \in DOMAIN new, new[j].el = new[k].el
        PROVE  j = k
    <3>1. j # 1 => j - 1 \in DOMAIN old /\ new[j] = old[j - 1] /\ (j - 1) + 1 = j
      BY <1>5
    <3>2. k # 1 => k - 1 \in DOMAIN old /\ new[k] = old[k - 1] /\ (k - 1) + 1 = k
      BY <1>5
    <3>3. j = 1 <=> k = 1
      BY <1>3, <2>1, <2>2, <3>1, <3>2
    <3>4. j # 1 => j - 1 = k - 1
      BY <1>1, <2>2, <3>1, <3>2, <3>3 DEF IsTree
    <3> QED
      BY <3>1, <3>2, <3>3, <3>4
  <2>3. ASSUME NEW j \in DOMAIN new
        PROVE  /\ new[j].parent \in Elements(new) \cup {Top}
               /\ new[j].parent < new[j].el
    BY <1>1, <1>3, <1>5, <1>7 DEF IsTree, IsNewIn
  <2>4. \E top \in Nat : \A e \in Elements(new) : e <= top
    <3>1. PICK top \in Nat : \A e \in Elements(old) : e <= top
      BY DEF IsScript
    <3>2. node.el \in Nat /\ \A e \in Elements(old) : e \in Nat
      BY <1>1, Placed DEF Nodes
    <3>3. top + node.el \in Nat /\ \A e \in Elements(new) : e <= top + node.el
      BY <1>7, <3>1, <3>2
    <3> QED
      BY <3>3
  <2> QED
    BY <1>3, <2>2, <2>3, <2>4 DEF IsScript, Scripts, Nodes, IsTree
<1>9. ASSUME NEW e \in Elements(old)
      PROVE  /\ Node(new, e) = Node(old, e)
             /\ \/ Index(new, e) = Index(old, e)
                \/ /\ Node(old, e).parent = node.parent
                   /\ Node(old, e).class = node.class
  <2> DEFINE p == Place(old, e)
             n == Node(old, e)
             counted == {j \in Beside(old, e) : j < p /\ old[j].class = n.class}
             recount == {j \in Beside(new, e) : j < p + 1 /\ new[j].class = n.class}
  <2>1. p \in DOMAIN old /\ old[p].el = e /\ p \in Nat
    BY <1>2, Placed DEF Node
  <2>2. Place(new, e) = p + 1
    <3>1. p + 1 \in DOMAIN new /\ new[p + 1].el = e
      BY <1>3, <1>6, <2>1
    <3> HIDE DEF p
    <3> QED
      BY <1>8, <3>1, PlaceIs
  <2>3. Node(new, e) = n
    BY <1>3, <2>1, <2>2 DEF Node
  <2>4. Index(new, e) = Cardinality(recount) /\ Index(old, e) = Cardinality(counted)
    BY <2>2, <2>3 DEF Index
  <2>5. ASSUME ~(n.parent = node.parent /\ n.class = node.class)
        PROVE  Cardinality(recount) = Cardinality(counted)
    <3>1. recount = {j \in DOMAIN new : new[j].parent = n.parent /\ j < p + 1
                                         /\ new[j].class = n.class}
      BY <2>3 DEF Beside
    <3>2. counted = {j \in DOMAIN old : old[j].parent = n.parent /\ j < p
                                         /\ old[j].class = n.class}
      BY DEF Beside
    <3>3. counted \in SUBSET (1 .. Len(old))
      BY <1>2, <3>2
    <3> HIDE DEF counted, recount, n, p
    <3>4. ASSUME NEW j \in counted PROVE j + 1 \in recount
      <4>1. j \in DOMAIN old /\ j \in Nat /\ j + 1 < p + 1
        BY <1>2, <2>1, <3>2
      <4> QED
        BY <1>3, <1>6, <3>1, <3>2, <4>1
    <3>5. ASSUME NEW j \in recount PROVE j - 1 \in counted /\ (j - 1) + 1 = j
      <4>1. j # 1
        BY <1>3, <2>5, <3>1
      <4>2. j - 1 \in DOMAIN old /\ new[j] = old[j - 1] /\ (j - 1) + 1 = j
        BY <1>5, <3>1, <4>1
      <4>3. j - 1 < p
        BY <1>2, <2>1, <3>1, <4>2
      <4> QED
        BY <3>1, <3>2, <4>2, <4>3
    <3>6. recount = {j + 1 : j \in counted}
      BY <3>4, <3>5
    <3> QED
      BY <1>2, <3>3, <3>6, ShiftedAreAsMany
  <2> QED
    BY <2>3, <2>4, <2>5
<1> QED
  BY <1>4, <1>7, <1>8, <1>9

(* An id is the class, the name and the path of its element.               *)
LEMMA IdsFollowPaths ==
    ASSUME NEW old, NEW new, IsScript(old), IsScript(new),
           Elements(old) \subseteq Elements(new), NEW Disturbed,
           \A e \in Elements(old) : /\ Node(new, e).class = Node(old, e).class
                                    /\ Node(new, e).parent = Node(old, e).parent
                                    /\ e \in Disturbed \/ Index(new, e) = Index(old, e)
    PROVE  \A e \in Elements(old) :
               \/ node_id(new, e) = node_id(old, e)
               \/ Node(new, e).name # Node(old, e).name
               \/ \E a \in Above(old, e) : a \in Disturbed
<1>1. \A e \in Elements(old) : \/ Paths(new)[e] = Paths(old)[e]
                               \/ \E a \in Above(old, e) : a \in Disturbed
  BY PathsStay
<1> QED
  BY <1>1 DEF node_id

\* What a call makes of a script: an element renamed, or one added with the
\* next number.
IsChange(old, new, next) ==
    \/ \E i \in DOMAIN old, name \in STRING : new = [old EXCEPT ![i].name = name]
    \/ \E node : /\ IsNewIn(node, old) /\ node.el = next
                 /\ new \in {AddedFirst(node, old), Append(old, node)}

\* The ids that a change leaves as they are.
IdsStay(old, new) ==
    LET Disturbed(a) == /\ Head(new).el \notin Elements(old)
                        /\ Node(old, a).parent = Head(new).parent
                        /\ Node(old, a).class = Head(new).class
    IN  \A e \in Elements(old) :
           \/ node_id(new, e) = node_id(old, e)
           \/ Node(new, e).name # Node(old, e).name
           \/ \E a \in Above(old, e) : Disturbed(a)

(* A change leaves a script, with its ids but for those it is known to     *)
(* disturb.                                                                *)
LEMMA ChangeIsScript ==
    ASSUME NEW old, IsScript(old), NEW new, NEW next, IsChange(old, new, next)
    PROVE  /\ IsScript(new) /\ IdsStay(old, new)
           /\ Elements(new) \subseteq Elements(old) \cup {next}
<1>1. old \in Seq(Nodes) /\ Len(old) \in Nat /\ DOMAIN old = 1 .. Len(old)
  BY Placed DEF IsScript, Scripts, Nodes
<1>2. ASSUME NEW i \in DOMAIN old, NEW name \in STRING, new = [old EXCEPT ![i].name = name]
      PROVE  IsScript(new) /\ IdsStay(old, new) /\ Elements(new) = Elements(old)
  <2>1. DOMAIN new = DOMAIN old /\ \A j \in DOMAIN old : old[j] \in Nodes
    BY <1>1, <1>2
  <2>2. \A j \in DOMAIN old : /\ new[j] \in Nodes
                              /\ new[j].el = old[j].el /\ new[j].class = old[j].class
                              /\ new[j].parent = old[j].parent
    BY <1>2, <2>1 DEF Nodes
  <2>3. new \in Seq(Nodes)
    <3>1. new \in [1 .. Len(old) -> Nodes]
      BY <1>1, <1>2, <2>1, <2>2
    <3> QED
      BY <1>1, <3>1
  <2>4. /\ IsScript(new) /\ Elements(new) = Elements(old)
        /\ \A e \in Elements(old) : /\ Node(new, e).class = Node(old, e).class
                                    /\ Node(new, e).parent = Node(old, e).parent
                                    /\ Index(new, e) = Index(old, e)
    BY <2>1, <2>2, <2>3, Renamed
  <2> DEFINE none == {}
  <2> HIDE DEF none
  <2>5. \A e \in Elements(old) : e \in none \/ Index(new, e) = Index(old, e)
    BY <2>4
  <2>6. \A e \in Elements(old) : \/ node_id(new, e) = node_id(old, e)
                                 \/ Node(new, e).name # Node(old, e).name
                                 \/ \E a \in Above(old, e) : a \in none
    BY <2>4, <2>5, IdsFollowPaths
  <2> QED
    BY <2>4, <2>6 DEF IdsStay, none
<1>3. ASSUME NEW node, IsNewIn(node, old), new = Append(old, node)
      PROVE  IsScript(new) /\ IdsStay(old, new) /\ Elements(new) = Elements(old) \cup {node.el}
  <2>1. /\ IsScript(new) /\ Elements(new) = Elements(old) \cup {node.el}
        /\ \A e \in Elements(old) : /\ Node(new, e) = Node(old, e)
                                    /\ Index(new, e) = Index(old, e)
    BY <1>3, Appended
  <2> DEFINE none == {}
  <2> HIDE DEF none
  <2>2. \A e \in Elements(old) : /\ Node(new, e).class = Node(old, e).class
                                 /\ Node(new, e).parent = Node(old, e).parent
                                 /\ e \in none \/ Index(new, e) = Index(old, e)
    BY <2>1
  <2>3. \A e \in Elements(old) : \/ node_id(new, e) = node_id(old, e)
                                 \/ Node(new, e).name # Node(old, e).name
                                 \/ \E a \in Above(old, e) : a \in none
    BY <2>1, <2>2, IdsFollowPaths
  <2> QED
    BY <2>1, <2>3 DEF IdsStay, none
<1>4. ASSUME NEW node, IsNewIn(node, old), new = AddedFirst(node, old)
      PROVE  IsScript(new) /\ IdsStay(old, new) /\ Elements(new) = Elements(old) \cup {node.el}
  <2>1. /\ IsScript(new) /\ Elements(new) = Elements(old) \cup {node.el} /\ Head(new) = node
        /\ \A e \in Elements(old) :
               /\ Node(new, e) = Node(old, e)
               /\ \/ Index(new, e) = Index(old, e)
                  \/ /\ Node(old, e).parent = node.parent
                     /\ Node(old, e).class = node.class
    BY <1>4, Prepended
  <2> DEFINE Disturbed == {e \in Elements(old) : /\ Node(old, e).parent = node.parent
                                                 /\ Node(old, e).class = node.class}
  <2>2. ASSUME NEW e \in Elements(old)
        PROVE  /\ Node(new, e).class = Node(old, e).class
               /\ Node(new, e).parent = Node(old, e).parent
               /\ e \in Disturbed \/ Index(new, e) = Index(old, e)
    <3>1. \/ Index(new, e) = Index(old, e)
          \/ Node(old, e).parent = node.parent /\ Node(old, e).class = node.class
      BY <2>1
    <3> QED
      BY <2>1, <3>1
  <2> HIDE DEF Disturbed
  <2>3. \A e \in Elements(old) : \/ node_id(new, e) = node_id(old, e)
                                 \/ Node(new, e).name # Node(old, e).name
                                 \/ \E a \in Above(old, e) : a \in Disturbed
    BY <2>1, <2>2, IdsFollowPaths
  <2>4. \A a \in Disturbed : /\ Head(new).el \notin Elements(old)
                             /\ Node(old, a).parent = Head(new).parent
                             /\ Node(old, a).class = Head(new).class
    BY <1>4, <2>1 DEF IsNewIn, Disturbed
  <2> QED
    BY <2>1, <2>3, <2>4 DEF IdsStay
<1> QED
  BY <1>2, <1>3, <1>4 DEF IsChange

\* A script as the calls know it: its elements have the numbers given so far.
Known(script, top) ==
    script \in Scripts /\ IsTree(script) /\ Elements(script) \subseteq 1 .. top

\* The number of the latest element.
Given == Len(Generated) + changes

\* Whatever is read is a script, and what is about to be saved is a change of it.
ScriptsInv ==
    /\ changes \in 0 .. MaxChanges /\ stops \in 0 .. MaxStops
    /\ \A f \in Stems : Readable(f) => Known(scripts[f], Given)
    /\ \A f \in Stems : \A n \in DOMAIN backups[f] :
          backups[f][n] = Torn \/ Known(backups[f][n], Given)
    /\ analysis # None => Known(analysis.script, Given)
    /\ change # None => Known(change.script, Given)
    /\ change # None /\ change.step # "write" => Readable(change.of)
    /\ At("backup") => IsChange(scripts[change.of], change.script, Given)

(* The constants that scripts are made of.                                 *)
LEMMA ScriptBounds == /\ Len(Generated) \in Nat /\ Known(Generated, Len(Generated))
                      /\ Additions \subseteq [class : STRING, name : STRING]
                      /\ Names \subseteq STRING /\ Generated \notin {Torn, None}
                      /\ {MaxChanges, MaxStops} \subseteq Nat
<1>1. /\ Generated \in Seq(Nodes) /\ IsTree(Generated)
      /\ Elements(Generated) \subseteq 1 .. Len(Generated)
  BY EditorAssumption DEF Scripts, Nodes
<1>2. Len(Generated) \in Nat
  BY <1>1, LenProperties
<1> QED
  BY <1>1, <1>2, EditorAssumption DEF Known

(* What is known stays known as numbers are given.                         *)
LEMMA KnownOn ==
    ASSUME NEW script, NEW top \in Nat, Known(script, top)
    PROVE  IsScript(script) /\ Known(script, top + 1)
<1>1. \A e \in Elements(script) : e <= top /\ e \in 1 .. top + 1
  BY DEF Known
<1> QED
  BY <1>1 DEF Known, IsScript

(* A change of a known script is known.                                    *)
LEMMA KnownChange ==
    ASSUME NEW old, NEW top \in Nat, Known(old, top), NEW new, IsChange(old, new, top + 1)
    PROVE  Known(new, top + 1)
<1>1. IsScript(new) /\ Elements(new) \subseteq Elements(old) \cup {top + 1}
  BY KnownOn, ChangeIsScript
<1>2. Elements(old) \subseteq 1 .. top + 1
  BY KnownOn DEF Known
<1> QED
  BY <1>1, <1>2 DEF Known, IsScript

(* A call for a change makes one of a script that can be read.             *)
LEMMA ChangeIsOfAScript ==
    ASSUME EditorTypes, ScriptsInv, add_jmx_component \/ edit_jmx_component
    PROVE  /\ UNCHANGED <<disk, analysis, stops>> /\ changes' = changes + 1
           /\ changes < MaxChanges
           /\ change'.of \in Stems /\ Readable(change'.of)
           /\ IsChange(scripts[change'.of], change'.script, Given + 1)
<1>1. Ready /\ newest \in Stems /\ analysis.of \in Stems
  BY DEF EditorTypes, add_jmx_component, edit_jmx_component, Ready
<1>2. Given \in Nat /\ Given + 1 = Len(Generated) + changes + 1
  BY ScriptBounds DEF ScriptsInv, Given
<1>3. ASSUME NEW f \in Discovered, NEW hit \in Elements(scripts[f])
      PROVE  f \in Stems /\ Readable(f) /\ Known(scripts[f], Given) /\ IsScript(scripts[f])
  <2>1. f \in Stems /\ Readable(f)
    BY <1>1, <1>3 DEF Discovered
  <2> QED
    BY <1>2, <2>1, KnownOn DEF ScriptsInv
<1>4. \A x \in Targets : x[1] \in Discovered /\ x[3] \in Elements(scripts[x[1]])
  BY DEF Targets, find_element_by_node_id
<1>5. ASSUME NEW f, NEW e, NEW hit, NEW script, BeginChange(f, e, hit, script),
             f \in Discovered, hit \in Elements(scripts[f]),
             IsChange(scripts[f], script, Given + 1)
      PROVE  /\ UNCHANGED <<disk, analysis, stops>> /\ changes' = changes + 1
             /\ changes < MaxChanges
             /\ change'.of \in Stems /\ Readable(change'.of)
             /\ IsChange(scripts[change'.of], change'.script, Given + 1)
  <2>1. change'.of = f /\ change'.script = script
    BY <1>5 DEF BeginChange
  <2> QED
    BY <1>1, <1>3, <1>5, <2>1 DEF BeginChange, Ready
<1>6. CASE add_jmx_component
  <2>1. PICK x \in Targets : AddBelow(x[1], x[2], x[3])
    BY <1>6 DEF add_jmx_component
  <2> DEFINE f == x[1]
             hit == x[3]
  <2>2. f \in Discovered /\ hit \in Elements(scripts[f])
    BY <1>4, <2>1
  <2> DEFINE new(a) == Element(Len(Generated) + changes + 1, a.class, a.name, hit)
  <2>3. PICK a \in Additions :
            \E script \in {AddedFirst(new(a), scripts[f]), Append(scripts[f], new(a))} :
                BeginChange(f, x[2], hit, script)
    BY <2>1 DEF AddBelow, AddedFirst
  <2> DEFINE node == new(a)
  <2>4. PICK script \in {AddedFirst(node, scripts[f]), Append(scripts[f], node)} :
            BeginChange(f, x[2], hit, script)
    BY <2>3
  <2>5. Known(scripts[f], Given) /\ IsScript(scripts[f])
    BY <1>3, <2>2
  <2>6. hit \in 1 .. Given /\ Given + 1 \notin Elements(scripts[f])
    BY <1>2, <2>2, <2>5 DEF Known
  <2>7. node.el = Given + 1 /\ IsNewIn(node, scripts[f])
    <3>1. /\ node.el = Given + 1 /\ node.class = a.class /\ node.name = a.name
          /\ node.parent = hit
      BY <1>2 DEF Element
    <3>2. a.class \in STRING /\ a.name \in STRING
      BY ScriptBounds
    <3>3. node \in Nodes
      BY <1>2, <2>6, <3>2 DEF Element, Nodes
    <3> HIDE DEF node
    <3> QED
      BY <1>2, <2>2, <2>6, <3>1, <3>3 DEF IsNewIn
  <2>8. IsChange(scripts[f], script, Given + 1)
    <3> HIDE DEF node
    <3>1. script \in {AddedFirst(node, scripts[f]), Append(scripts[f], node)}
      BY <2>4 DEF node
    <3> QED
      BY <2>7, <3>1 DEF IsChange
  <2> HIDE DEF f, hit
  <2> QED
    BY <1>5, <2>2, <2>4, <2>8
<1>7. CASE edit_jmx_component
  <2>1. PICK x \in Targets : EditAt(x[1], x[2], x[3])
    BY <1>7 DEF edit_jmx_component
  <2> DEFINE f == x[1]
             hit == x[3]
  <2>2. f \in Discovered /\ hit \in Elements(scripts[f])
    BY <1>4, <2>1
  <2>3. PICK name \in Names :
            BeginChange(f, x[2], hit, [scripts[f] EXCEPT ![Place(scripts[f], hit)].name = name])
    BY <2>1 DEF EditAt
  <2>4. Place(scripts[f], hit) \in DOMAIN scripts[f] /\ name \in STRING
    BY <1>3, <2>2, Placed, ScriptBounds
  <2>5. IsChange(scripts[f], [scripts[f] EXCEPT ![Place(scripts[f], hit)].name = name], Given + 1)
    BY <2>4 DEF IsChange
  <2> HIDE DEF f, hit
  <2> QED
    BY <1>5, <2>2, <2>3, <2>5
<1> QED
  BY <1>6, <1>7

(* What is in the backups after a step of one was there, or is the script, *)
(* or its copy by half.                                                    *)
LEMMA BackupsAreScripts ==
    ASSUME EditorTypes, BackUpScript \/ CopyScript \/ RemoveOldest \/ BackedUp,
           NEW f \in Stems, NEW n \in DOMAIN backups'[f]
    PROVE  \/ n \in DOMAIN backups[f] /\ backups'[f][n] = backups[f][n]
           \/ backups'[f][n] \in {Torn, scripts[change.of]}
<1>1. DOMAIN backups = Stems /\ change.of \in Stems
  BY DEF EditorTypes, BackUpScript, CopyScript, RemoveOldest, BackedUp, At
<1>2. ASSUME NEW g \in Stems, NEW k, NEW script \in {Torn, scripts[change.of]},
             backups' = Holding(g, k, script)
      PROVE  \/ n \in DOMAIN backups[f] /\ backups'[f][n] = backups[f][n]
             \/ backups'[f][n] \in {Torn, scripts[change.of]}
  BY <1>2, HeldIs
<1>3. CASE BackUpScript
  <2>1. backups' = backups \/ \E k : backups' = Holding(change.of, k, Torn)
    BY <1>3 DEF BackUpScript, create_backup
  <2> QED
    BY <1>1, <1>2, <2>1
<1>4. CASE CopyScript
  <2>1. backups' = Holding(change.of, change.copy, scripts[change.of])
    BY <1>4 DEF CopyScript
  <2> QED
    BY <1>1, <1>2, <2>1
<1>5. CASE RemoveOldest
  <2>1. PICK g \in Stems : \E k \in DOMAIN backups[g] :
            backups' = [backups EXCEPT ![g] = [m \in DOMAIN @ \ {k} |-> @[m]]]
    BY <1>5 DEF RemoveOldest
  <2> QED
    BY <1>1, <2>1
<1>6. CASE BackedUp
  BY <1>6 DEF BackedUp, disk
<1> QED
  BY <1>3, <1>4, <1>5, <1>6

LEMMA ScriptsInductive == EditorSpec => []ScriptsInv
<1>1. EditorInit => ScriptsInv
  <2> SUFFICES ASSUME EditorInit PROVE ScriptsInv
    OBVIOUS
  <2>1. /\ \A f \in Stems : scripts[f] = None /\ DOMAIN backups[f] = {}
        /\ change = None /\ analysis = None /\ changes = 0 /\ stops = 0
    BY DEF EditorInit
  <2> QED
    BY <2>1, ScriptBounds DEF ScriptsInv, At, Readable
<1>2. ScriptsInv /\ EditorInv /\ [EditorNext]_editorVars => ScriptsInv'
  <2> SUFFICES ASSUME ScriptsInv, EditorTypes, [EditorNext]_editorVars PROVE ScriptsInv'
    BY DEF EditorInv
  <2>1. /\ Given \in Nat /\ Len(Generated) \in Nat /\ changes \in Nat
        /\ MaxChanges \in Nat /\ MaxStops \in Nat
    BY ScriptBounds DEF ScriptsInv, Given
  <2>2. Known(Generated, Given)
    <3>1. Elements(Generated) \subseteq 1 .. Given
      BY <2>1, ScriptBounds DEF Known, Given
    <3> QED
      BY <3>1, ScriptBounds DEF Known
  <2>3. ASSUME NEW g \in Stems, PutScript(g) \/ Revert(g) PROVE ScriptsInv'
    <3>1. PICK script : scripts' = [scripts EXCEPT ![g] = script] /\ Known(script, Given)
      BY <2>2, <2>3 DEF PutScript, Revert, ScriptsInv
    <3>2. /\ change = None /\ change' = None /\ backups' = backups /\ analysis' = analysis
          /\ changes' = changes /\ stops' = stops /\ Given' = Given
      BY <2>3 DEF PutScript, Revert, Given
    <3>3. \A f \in Stems : scripts'[f] = IF f = g THEN script ELSE scripts[f]
      BY <3>1 DEF EditorTypes
    <3> QED
      BY <3>1, <3>2, <3>3 DEF ScriptsInv, Readable, At
  <2>4. ASSUME NEW f \in Stems, analyze_jmx_file(f) PROVE ScriptsInv'
    <3>1. /\ analysis' = [of |-> f, script |-> scripts[f]] /\ Readable(f)
          /\ change = None /\ change' = None /\ scripts' = scripts /\ backups' = backups
          /\ changes' = changes /\ stops' = stops /\ Given' = Given
      BY <2>4 DEF analyze_jmx_file, disk, Given
    <3>2. analysis'.script = scripts[f] /\ Known(scripts[f], Given)
      BY <3>1 DEF ScriptsInv
    <3> QED
      BY <3>1, <3>2 DEF ScriptsInv, Readable, At
  <2>5. CASE add_jmx_component \/ edit_jmx_component
    <3>1. /\ scripts' = scripts /\ backups' = backups /\ analysis' = analysis
          /\ stops' = stops /\ changes' = changes + 1 /\ changes < MaxChanges
          /\ change'.of \in Stems /\ Readable(change'.of)
          /\ IsChange(scripts[change'.of], change'.script, Given + 1)
      BY <2>5, ChangeIsOfAScript DEF disk
    <3>2. Given' = Given + 1 /\ changes' \in 0 .. MaxChanges
      BY <2>1, <3>1 DEF Given
    <3>3. \A script : Known(script, Given) => Known(script, Given')
      BY <2>1, <3>2, KnownOn
    <3>4. Known(scripts[change'.of], Given)
      BY <3>1 DEF ScriptsInv
    <3>5. Known(change'.script, Given')
      BY <2>1, <3>1, <3>2, <3>4, KnownChange
    <3> QED
      BY <3>1, <3>2, <3>3, <3>5 DEF ScriptsInv, Readable
  <2>6. CASE BackUpScript \/ CopyScript \/ RemoveOldest \/ BackedUp
    <3>1. /\ change # None /\ change.step # "write" /\ change.of \in Stems
          /\ {"of", "script", "step", "copy"} \subseteq DOMAIN change /\ Readable(change.of)
          /\ scripts' = scripts /\ analysis' = analysis
          /\ changes' = changes /\ stops' = stops /\ Given' = Given
      BY <2>6 DEF BackUpScript, CopyScript, RemoveOldest, BackedUp, At, EditorTypes,
                  ScriptsInv, Given, disk
    <3>2. \/ /\ change.step = "prune" /\ change' = change
          \/ \E step \in {"copy", "prune", "open"} :
                 \/ change' = [change EXCEPT !.step = step]
                 \/ \E k : change' = [change EXCEPT !.step = step, !.copy = k]
      BY <2>6 DEF BackUpScript, CopyScript, RemoveOldest, BackedUp, create_backup, At, Then
    <3>3. /\ change'.step \in {"copy", "prune", "open"}
          /\ change'.of = change.of /\ change'.script = change.script
      <4>1. CASE change.step = "prune" /\ change' = change
        BY <4>1
      <4>2. ASSUME NEW step \in {"copy", "prune", "open"},
                   change' = [change EXCEPT !.step = step]
            PROVE  /\ change'.step = step /\ change'.of = change.of
                   /\ change'.script = change.script
        BY <3>1, <4>2
      <4>3. ASSUME NEW step \in {"copy", "prune", "open"}, NEW k,
                   change' = [change EXCEPT !.step = step, !.copy = k]
            PROVE  /\ change'.step = step /\ change'.of = change.of
                   /\ change'.script = change.script
        BY <3>1, <4>3
      <4> QED
        BY <3>2, <4>1, <4>2, <4>3
    <3>4. ASSUME NEW f \in Stems, NEW n \in DOMAIN backups'[f]
          PROVE  backups'[f][n] = Torn \/ Known(backups'[f][n], Given)
      <4>1. \/ n \in DOMAIN backups[f] /\ backups'[f][n] = backups[f][n]
            \/ backups'[f][n] \in {Torn, scripts[change.of]}
        BY <2>6, BackupsAreScripts
      <4> QED
        BY <3>1, <4>1 DEF ScriptsInv
    <3> QED
      BY <3>1, <3>3, <3>4 DEF ScriptsInv, Readable, At
  <2>7. CASE OpenToWrite
    <3>1. /\ change # None /\ change.step = "open" /\ change.of \in Stems
          /\ {"of", "script", "step", "copy"} \subseteq DOMAIN change
          /\ change' = [change EXCEPT !.step = "write"]
          /\ scripts' = [scripts EXCEPT ![change.of] = Torn]
          /\ backups' = backups /\ analysis' = analysis
          /\ changes' = changes /\ stops' = stops /\ Given' = Given
      BY <2>7 DEF OpenToWrite, At, Then, EditorTypes, Given
    <3>2. change'.step = "write" /\ change'.script = change.script
      BY <3>1
    <3>3. \A f \in Stems : scripts'[f] = IF f = change.of THEN Torn ELSE scripts[f]
      BY <3>1 DEF EditorTypes
    <3> QED
      BY <3>1, <3>2, <3>3 DEF ScriptsInv, Readable, At
  <2>8. CASE Write
    <3>1. /\ change # None /\ change' = None /\ change.of \in Stems
          /\ scripts' = [scripts EXCEPT ![change.of] = change.script]
          /\ backups' = backups /\ analysis' = analysis
          /\ changes' = changes /\ stops' = stops /\ Given' = Given
      BY <2>8 DEF Write, At, EditorTypes, Given
    <3>2. \A f \in Stems : scripts'[f] = IF f = change.of THEN change.script ELSE scripts[f]
      BY <3>1 DEF EditorTypes
    <3> QED
      BY <3>1, <3>2 DEF ScriptsInv, Readable, At
  <2>9. CASE CutShort
    <3>1. /\ change' = None /\ scripts' = scripts /\ backups' = backups
          /\ analysis' = analysis /\ changes' = changes /\ Given' = Given
          /\ stops < MaxStops /\ stops' = stops + 1
      BY <2>9 DEF CutShort, disk, Given
    <3>2. stops' \in 0 .. MaxStops
      BY <2>1, <3>1 DEF ScriptsInv
    <3> QED
      BY <3>1, <3>2 DEF ScriptsInv, Readable, At
  <2>10. CASE UNCHANGED editorVars
    <3>1. /\ change' = change /\ scripts' = scripts /\ backups' = backups
          /\ analysis' = analysis /\ changes' = changes /\ stops' = stops /\ Given' = Given
      BY <2>10 DEF editorVars, disk, Given
    <3> QED
      BY <3>1 DEF ScriptsInv, Readable, At
  <2> QED
    BY <2>3, <2>4, <2>5, <2>6, <2>7, <2>8, <2>9, <2>10 DEF EditorNext
<1> QED
  BY <1>1, <1>2, EditorInductive, PTL DEF EditorSpec

(* Every script that is read, backed up, analysed or about to be saved is  *)
(* a tree of elements, each numbered once.                                 *)
THEOREM EditorTypeCorrect == EditorSpec => []EditorTypeOK
<1>1. EditorInv /\ ScriptsInv => EditorTypeOK
  <2> SUFFICES ASSUME EditorTypes, ScriptsInv PROVE EditorTypeOK
    BY DEF EditorInv
  <2>1. newest \in Stems \cup {None} /\ (analysis # None => analysis.of \in Stems)
    BY DEF EditorTypes
  <2> QED
    BY <2>1 DEF ScriptsInv, EditorTypeOK, Known
<1> QED
  BY <1>1, EditorInductive, ScriptsInductive, PTL

(* A change leaves the ids of an analysis valid but for the element it     *)
(* renames and, where it adds an element first, for the elements of that   *)
(* class beside it, with all that is below them: whatever the tree of the  *)
(* script, and however many changes went before.                           *)
THEOREM IdsAreKept == EditorSpec => []ChangesKeepIds
<1>1. EditorInv /\ ScriptsInv => ChangesKeepIds
  <2> SUFFICES ASSUME EditorTypes, ScriptsInv, At("backup") PROVE ChangesKeepIds
    BY DEF EditorInv, ChangesKeepIds
  <2>1. /\ change.of \in Stems /\ Readable(change.of)
        /\ IsChange(scripts[change.of], change.script, Given)
    BY DEF EditorTypes, ScriptsInv, At
  <2>2. IsScript(scripts[change.of])
    <3>1. Given \in Nat /\ Known(scripts[change.of], Given)
      BY <2>1, ScriptBounds DEF ScriptsInv, Given
    <3> QED
      BY <3>1, KnownOn
  <2>3. IdsStay(scripts[change.of], change.script)
    BY <2>1, <2>2, ChangeIsScript
  <2> QED
    BY <2>3 DEF ChangesKeepIds, IdsStay
<1> QED
  BY <1>1, EditorInductive, ScriptsInductive, PTL

\* An id finds at most one element of a script that can be read.
OneFound ==
    \A f \in Stems : Readable(f) =>
        \A id : \A d, e \in find_element_by_node_id(scripts[f], id) : d = e

(* No two elements of a script share an id (the hash aside), whatever was  *)
(* added, renamed and restored before: the match find_element_by_node_id   *)
(* returns first is the only one.                                          *)
THEOREM IdsAreUnique == EditorSpec => []OneFound
<1>1. ScriptsInv => OneFound
  <2> SUFFICES ASSUME ScriptsInv, NEW f \in Stems, Readable(f), NEW id,
                      NEW d \in find_element_by_node_id(scripts[f], id),
                      NEW e \in find_element_by_node_id(scripts[f], id)
               PROVE  d = e
    BY DEF OneFound
  <2>1. Given \in Nat /\ Known(scripts[f], Given)
    BY ScriptBounds DEF ScriptsInv, Given
  <2>2. IsScript(scripts[f])
    BY <2>1, KnownOn
  <2>3. /\ d \in Elements(scripts[f]) /\ e \in Elements(scripts[f])
        /\ node_id(scripts[f], d) = node_id(scripts[f], e)
    BY DEF find_element_by_node_id
  <2>4. Paths(scripts[f])[d] = Paths(scripts[f])[e]
    <3> DEFINE c(x) == Node(scripts[f], x).class
               n(x) == Node(scripts[f], x).name
               p(x) == Paths(scripts[f])[x]
    <3>1. <<c(d), n(d), p(d)>> = <<c(e), n(e), p(e)>>
      BY <2>3 DEF node_id
    <3> HIDE DEF c, n, p
    <3>2. p(d) = p(e)
      BY <3>1
    <3> QED
      BY <3>2 DEF p
  <2> QED
    BY <2>2, <2>3, <2>4, PathsDiffer
<1> QED
  BY <1>1, ScriptsInductive, PTL

-----------------------------------------------------------------------------
(* The scan for a sustained run.                                           *)

(* Each position is visited with what the scan knew at the one before.     *)
LEMMA ScanSteps ==
    ASSUME NEW n \in Nat, NEW bad, NEW outliers
    PROVE  LET scan == Scan(n, bad, outliers)
           IN  \A i \in 0 .. n : scan[i] = IF i <= Warmup THEN NoRun
                                            ELSE Visit(scan[i - 1], i, bad, outliers)
<1> DEFINE Step(g, i) == IF i <= Warmup THEN NoRun ELSE Visit(g[i - 1], i, bad, outliers)
           P == {m \in Nat : \E g : g = [i \in 0 .. m |-> Step(g, i)]}
<1>1. 0 \in P
  <2> DEFINE g == [i \in 0 .. 0 |-> NoRun]
  <2>1. \A i \in 0 .. 0 : i <= Warmup
    BY AnalysisAssumption
  <2>2. g = [i \in 0 .. 0 |-> Step(g, i)]
    BY <2>1
  <2> QED
    BY <2>2
<1>2. ASSUME NEW m \in 0 .. n - 1, m \in P PROVE m + 1 \in P
  <2>1. PICK g : g = [i \in 0 .. m |-> Step(g, i)]
    BY <1>2
  <2> DEFINE h == [i \in 0 .. m + 1 |-> IF i = m + 1 THEN Step(g, i) ELSE g[i]]
  <2>2. ASSUME NEW i \in 0 .. m + 1 PROVE h[i] = Step(h, i)
    <3> HIDE DEF Step
    <3>1. i # 0 => i - 1 \in 0 .. m /\ h[i - 1] = g[i - 1]
      OBVIOUS
    <3>2. h[i] = Step(g, i)
      BY <2>1
    <3>3. Step(h, i) = Step(g, i)
      BY <3>1, AnalysisAssumption DEF Step
    <3> QED
      BY <3>2, <3>3
  <2>3. h = [i \in 0 .. m + 1 |-> Step(h, i)]
    BY <2>2
  <2> HIDE DEF h, Step
  <2>4. \E a : a = [i \in 0 .. m + 1 |-> Step(a, i)]
    BY <2>3
  <2> QED
    BY <2>4
<1>3. n \in P
  <2> HIDE DEF P
  <2> QED
    BY <1>1, <1>2, CountUp
<1> DEFINE scan == CHOOSE a : a = [i \in 0 .. n |-> Step(a, i)]
<1>4. \E a : a = [i \in 0 .. n |-> Step(a, i)]
  BY <1>3
<1>5. scan = [i \in 0 .. n |-> Step(scan, i)]
  BY <1>4
<1>6. Scan(n, bad, outliers) = scan
  BY DEF Scan
<1> QED
  BY <1>5, <1>6

\* The buckets from a to b that are not outliers.
Live(a, b, outliers) == (a .. b) \ outliers

\* A run of degraded buckets from k on is broken by bucket i, before it is
\* sustained.
Broken(k, i, bad, outliers) ==
    \E j \in Live(k, i, outliers) \ bad : Cardinality(Live(k, j, outliers)) <= Sustained

\* Every run that could have begun before bucket o is broken before it.
NoneBefore(o, bad, outliers) ==
    \A k \in Live(Warmup + 1, o - 1, outliers) : Broken(k, o - 1, bad, outliers)

\* The run that the scan is in after bucket i begins here.
Begins(acc, i) == IF acc.count = 0 THEN i + 1 ELSE acc.onset

\* What the scan knows after bucket i: the run it is in, or the first one that
\* was sustained.
Running(acc, i, bad, outliers) ==
    LET o == Begins(acc, i)
    IN  /\ o \in Warmup + 1 .. i + 1
        /\ acc.count > 0 => o \notin outliers
        /\ Live(o, i, outliers) \subseteq bad
        /\ Cardinality(Live(o, i, outliers)) = acc.count /\ acc.count < Sustained
        /\ NoneBefore(o, bad, outliers)

Sustains(o, i, bad, outliers) ==
    /\ o \in Live(Warmup + 1, i, outliers)
    /\ \E e \in Live(o, i, outliers) : /\ Cardinality(Live(o, e, outliers)) = Sustained
                                      /\ Live(o, e, outliers) \subseteq bad
    /\ NoneBefore(o, bad, outliers)

Scanned(acc, i, bad, outliers) ==
    /\ acc \in [count : Nat, onset : Nat, hit : BOOLEAN]
    /\ IF acc.hit THEN Sustains(acc.onset, i, bad, outliers)
                  ELSE Running(acc, i, bad, outliers)

(* How many buckets are live: one more with each that is not an outlier.   *)
LEMMA LiveCount ==
    ASSUME NEW a \in Nat, NEW b \in Nat, NEW outliers
    PROVE  /\ IsFiniteSet(Live(a, b, outliers)) /\ Cardinality(Live(a, b, outliers)) \in Nat
           /\ a > b => Live(a, b, outliers) = {} /\ Cardinality(Live(a, b, outliers)) = 0
           /\ b + 1 \in outliers => Live(a, b + 1, outliers) = Live(a, b, outliers)
           /\ b + 1 \notin outliers /\ a <= b + 1 =>
                  /\ Live(a, b + 1, outliers) = Live(a, b, outliers) \cup {b + 1}
                  /\ Cardinality(Live(a, b + 1, outliers)) = Cardinality(Live(a, b, outliers)) + 1
<1>1. IsFiniteSet(Live(a, b, outliers))
  <2>1. IsFiniteSet(a .. b) /\ Live(a, b, outliers) \in SUBSET (a .. b)
    BY FS_Interval DEF Live
  <2> QED
    BY <2>1, FS_Subset
<1>2. Cardinality(Live(a, b, outliers)) \in Nat
  BY <1>1, FS_CardinalityType
<1>3. a > b => Live(a, b, outliers) = {} /\ Cardinality(Live(a, b, outliers)) = 0
  <2>1. a > b => Live(a, b, outliers) = {}
    BY DEF Live
  <2> QED
    BY <2>1, FS_EmptySet
<1>4. b + 1 \in outliers => Live(a, b + 1, outliers) = Live(a, b, outliers)
  BY DEF Live
<1>5. ASSUME b + 1 \notin outliers, a <= b + 1
      PROVE  /\ Live(a, b + 1, outliers) = Live(a, b, outliers) \cup {b + 1}
             /\ Cardinality(Live(a, b + 1, outliers)) = Cardinality(Live(a, b, outliers)) + 1
  <2>1. Live(a, b + 1, outliers) = Live(a, b, outliers) \cup {b + 1}
    BY <1>5 DEF Live
  <2>2. b + 1 \notin Live(a, b, outliers)
    BY DEF Live
  <2> QED
    BY <1>1, <2>1, <2>2, FS_AddElement
<1> QED
  BY <1>1, <1>2, <1>3, <1>4, <1>5

(* Fewer are live in a part.                                               *)
LEMMA LivePart ==
    ASSUME NEW a \in Nat, NEW b \in Nat, NEW c \in Nat, NEW d \in Nat, a <= c, d <= b,
           NEW outliers
    PROVE  /\ Live(c, d, outliers) \subseteq Live(a, b, outliers)
           /\ Cardinality(Live(c, d, outliers)) <= Cardinality(Live(a, b, outliers))
<1>1. Live(c, d, outliers) \in SUBSET Live(a, b, outliers)
  BY DEF Live
<1> QED
  BY <1>1, LiveCount, FS_Subset

(* One visit of the scan keeps what it knows true.                         *)
LEMMA VisitKeeps ==
    ASSUME NEW i \in Nat, Warmup <= i, NEW acc, NEW bad, NEW outliers,
           Scanned(acc, i, bad, outliers)
    PROVE  Scanned(Visit(acc, i + 1, bad, outliers), i + 1, bad, outliers)
<1> DEFINE p == i + 1
           o == Begins(acc, i)
           later == Visit(acc, p, bad, outliers)
<1>1. /\ acc \in [count : Nat, onset : Nat, hit : BOOLEAN]
      /\ Warmup \in Nat /\ Sustained \in Nat /\ Sustained >= 1 /\ p \in Nat
  BY AnalysisAssumption DEF Scanned
<1>2. ASSUME NEW k \in Nat, NEW j \in Nat, NEW l \in Nat, j <= l, Broken(k, j, bad, outliers)
      PROVE  Broken(k, l, bad, outliers)
  BY <1>2 DEF Broken, Live
<1>3. CASE acc.hit
  <2>1. later = acc
    BY <1>3 DEF Visit
  <2>2. Sustains(acc.onset, p, bad, outliers)
    <3>1. Sustains(acc.onset, i, bad, outliers)
      BY <1>3 DEF Scanned
    <3>2. \A a \in Nat : Live(a, i, outliers) \subseteq Live(a, p, outliers)
      BY DEF Live
    <3>3. acc.onset \in Nat
      BY <1>1
    <3> QED
      BY <1>1, <3>1, <3>2, <3>3 DEF Sustains
  <2> QED
    BY <1>1, <1>3, <2>1, <2>2 DEF Scanned
<1>4. CASE ~acc.hit /\ p \in outliers
  <2>1. later = acc /\ Running(acc, i, bad, outliers) /\ o \in Nat
    BY <1>1, <1>4 DEF Visit, Scanned, Running
  <2>2. CASE acc.count = 0
    <3>1. Begins(acc, p) = p + 1 /\ o = p
      BY <1>1, <2>2 DEF Begins
    <3>2. Live(p + 1, p, outliers) = {} /\ Cardinality(Live(p + 1, p, outliers)) = 0
      BY <1>1, LiveCount
    <3>3. NoneBefore(p + 1, bad, outliers)
      <4>1. ASSUME NEW k \in Live(Warmup + 1, p, outliers) PROVE Broken(k, p, bad, outliers)
        <5>1. k \in Live(Warmup + 1, o - 1, outliers) /\ k \in Nat /\ o - 1 \in Nat /\ o - 1 <= p
          BY <1>1, <1>4, <3>1, <4>1 DEF Live
        <5> QED
          BY <1>1, <1>2, <2>1, <5>1 DEF Running, NoneBefore
      <4> QED
        BY <1>1, <4>1 DEF NoneBefore
    <3> QED
      BY <1>1, <1>4, <2>1, <2>2, <3>1, <3>2, <3>3 DEF Scanned, Running
  <2>3. CASE acc.count # 0
    <3>1. Begins(acc, p) = o
      BY <2>3 DEF Begins
    <3>2. Live(o, p, outliers) = Live(o, i, outliers)
      BY <1>4, <2>1, LiveCount
    <3> QED
      BY <1>1, <1>4, <2>1, <3>1, <3>2 DEF Scanned, Running
  <2> QED
    BY <2>2, <2>3
<1>5. CASE ~acc.hit /\ p \notin outliers /\ p \in bad
  <2>1. Running(acc, i, bad, outliers) /\ o \in Nat /\ o <= p /\ o >= Warmup + 1
    BY <1>1, <1>5 DEF Scanned, Running
  <2>2. o = (IF acc.count = 0 THEN p ELSE acc.onset)
    BY DEF Begins
  <2>3. later = [count |-> acc.count + 1, onset |-> o, hit |-> acc.count + 1 >= Sustained]
    BY <1>5, <2>2 DEF Visit
  <2>4. o \notin outliers
    BY <1>1, <1>5, <2>1, <2>2 DEF Running
  <2>5. /\ Live(o, p, outliers) = Live(o, i, outliers) \cup {p}
        /\ Cardinality(Live(o, p, outliers)) = acc.count + 1
        /\ Live(o, p, outliers) \subseteq bad
    <3> HIDE DEF o
    <3>1. Live(o, p, outliers) = Live(o, i, outliers) \cup {p}
          /\ Cardinality(Live(o, p, outliers)) = Cardinality(Live(o, i, outliers)) + 1
      BY <1>5, <2>1, LiveCount
    <3>2. Cardinality(Live(o, i, outliers)) = acc.count /\ Live(o, i, outliers) \subseteq bad
      BY <2>1 DEF Running, o
    <3> QED
      BY <1>5, <3>1, <3>2
  <2>6. /\ later \in [count : Nat, onset : Nat, hit : BOOLEAN]
        /\ later.count = acc.count + 1 /\ later.onset = o
        /\ later.hit = (acc.count + 1 >= Sustained) /\ acc.count + 1 # 0
    <3> HIDE DEF o, later
    <3> QED
      BY <1>1, <2>1, <2>3
  <2>7. CASE acc.count + 1 >= Sustained
    <3>1. Cardinality(Live(o, p, outliers)) = Sustained
      BY <1>1, <2>1, <2>5, <2>7 DEF Running
    <3>2. p \in Live(o, p, outliers) /\ o \in Live(Warmup + 1, p, outliers)
      BY <1>1, <1>5, <2>1, <2>4 DEF Live
    <3>3. Sustains(o, p, bad, outliers)
      BY <2>1, <2>5, <3>1, <3>2 DEF Sustains, Running
    <3> QED
      BY <2>3, <2>6, <2>7, <3>3 DEF Scanned
  <2>8. CASE ~(acc.count + 1 >= Sustained)
    <3>1. Begins(later, p) = o /\ later.count = acc.count + 1 /\ later.hit = FALSE
      <4> HIDE DEF o, later
      <4> QED
        BY <2>6, <2>8 DEF Begins
    <3>2. Running(later, p, bad, outliers)
      BY <1>1, <2>1, <2>4, <2>5, <2>8, <3>1 DEF Running
    <3> QED
      BY <2>6, <3>1, <3>2 DEF Scanned
  <2> QED
    BY <2>7, <2>8
<1>6. CASE ~acc.hit /\ p \notin outliers /\ p \notin bad
  <2>1. Running(acc, i, bad, outliers) /\ o \in Nat /\ o <= p /\ o >= Warmup + 1
    BY <1>1, <1>6 DEF Scanned, Running
  <2>2. later = NoRun /\ Begins(NoRun, p) = p + 1
    BY <1>6 DEF Visit, NoRun, Begins
  <2>3. Live(p + 1, p, outliers) = {} /\ Cardinality(Live(p + 1, p, outliers)) = 0
    BY <1>1, LiveCount
  <2>4. ASSUME NEW k \in Live(Warmup + 1, p, outliers) PROVE Broken(k, p, bad, outliers)
    <3>1. k \in Nat /\ k >= Warmup + 1 /\ k <= p /\ k \notin outliers
      BY <1>1, <2>4 DEF Live
    <3>2. CASE k < o
      <4>1. k \in Live(Warmup + 1, o - 1, outliers) /\ o - 1 \in Nat /\ o - 1 <= p
        BY <1>1, <2>1, <3>1, <3>2 DEF Live
      <4> QED
        BY <1>1, <1>2, <2>1, <3>1, <4>1 DEF Running, NoneBefore
    <3>3. CASE k >= o
      <4>1. Cardinality(Live(o, p, outliers)) = acc.count + 1
        BY <1>6, <2>1, LiveCount DEF Running
      <4>2. Cardinality(Live(k, p, outliers)) <= acc.count + 1
        BY <1>1, <2>1, <3>1, <3>3, <4>1, LivePart
      <4>3. Cardinality(Live(k, p, outliers)) <= Sustained
        BY <1>1, <2>1, <3>1, <4>2, LiveCount DEF Running
      <4>4. p \in Live(k, p, outliers) \ bad
        BY <1>1, <1>6, <3>1 DEF Live
      <4> QED
        BY <4>3, <4>4 DEF Broken
    <3> QED
      BY <2>1, <3>1, <3>2, <3>3
  <2>5. Running(NoRun, p, bad, outliers)
    BY <1>1, <2>2, <2>3, <2>4 DEF Running, NoneBefore, NoRun
  <2>6. NoRun \in [count : Nat, onset : Nat, hit : BOOLEAN] /\ NoRun.hit = FALSE
    BY DEF NoRun
  <2>7. Scanned(NoRun, p, bad, outliers)
    BY <2>5, <2>6 DEF Scanned
  <2> QED
    BY <2>2, <2>7
<1> QED
  BY <1>1, <1>3, <1>4, <1>5, <1>6

(* What the scan knows at its end is true.                                 *)
LEMMA ScanKnows ==
    ASSUME NEW n \in Nat, Warmup <= n, NEW bad, NEW outliers
    PROVE  Scanned(Scan(n, bad, outliers)[n], n, bad, outliers)
<1> DEFINE scan == Scan(n, bad, outliers)
           P == {i \in Nat : Warmup <= i => Scanned(scan[i], i, bad, outliers)}
<1>1. Warmup \in Nat /\ Sustained \in Nat /\ Sustained >= 1
  BY AnalysisAssumption
<1>2. \A i \in 0 .. n : scan[i] = IF i <= Warmup THEN NoRun
                                  ELSE Visit(scan[i - 1], i, bad, outliers)
  BY ScanSteps
<1>3. Scanned(NoRun, Warmup, bad, outliers)
  <2>1. NoRun \in [count : Nat, onset : Nat, hit : BOOLEAN] /\ NoRun.hit = FALSE
    BY DEF NoRun
  <2>2. Begins(NoRun, Warmup) = Warmup + 1
    BY DEF Begins, NoRun
  <2>3. /\ Live(Warmup + 1, Warmup, outliers) = {}
        /\ Cardinality(Live(Warmup + 1, Warmup, outliers)) = 0
    BY <1>1, LiveCount
  <2>4. Running(NoRun, Warmup, bad, outliers)
    <3>1. NoneBefore(Warmup + 1, bad, outliers)
      BY <1>1 DEF NoneBefore, Live
    <3>2. NoRun.count = 0
      BY DEF NoRun
    <3> QED
      BY <1>1, <2>2, <2>3, <3>1, <3>2 DEF Running
  <2> QED
    BY <2>1, <2>4 DEF Scanned
<1> HIDE DEF scan
<1>4. 0 \in P
  BY <1>1, <1>2, <1>3
<1>5. ASSUME NEW i \in 0 .. n - 1, i \in P PROVE i + 1 \in P
  <2>1. i \in Nat /\ i + 1 \in 0 .. n /\ (i + 1) - 1 = i
    OBVIOUS
  <2>2. CASE i + 1 <= Warmup
    <3>1. scan[i + 1] = NoRun
      BY <1>2, <2>1, <2>2
    <3> QED
      BY <1>1, <1>3, <2>1, <2>2, <3>1
  <2>3. CASE Warmup <= i
    <3>1. scan[i + 1] = Visit(scan[i], i + 1, bad, outliers)
      BY <1>1, <1>2, <2>1, <2>3
    <3>2. Scanned(scan[i], i, bad, outliers)
      BY <1>5, <2>3
    <3>3. Scanned(scan[i + 1], i + 1, bad, outliers)
      BY <2>1, <2>3, <3>1, <3>2, VisitKeeps
    <3> QED
      BY <2>1, <3>3
  <2> QED
    BY <1>1, <2>1, <2>2, <2>3
<1>6. n \in P
  <2> HIDE DEF P
  <2> QED
    BY <1>4, <1>5, CountUp
<1> QED
  BY <1>6 DEF scan

\* Where a sustained run begins, as a reader would define it.
Sustaining(n, bad, outliers) ==
    {k \in Live(Warmup + 1, n, outliers) :
        /\ Cardinality(FirstOf(k, n, outliers)) = Sustained
        /\ FirstOf(k, n, outliers) \subseteq bad}

(* A run that is broken is not sustained.                                  *)
LEMMA BrokenIsNot ==
    ASSUME NEW n \in Nat, NEW i \in Nat, i <= n, NEW k \in Nat, NEW bad, NEW outliers,
           Broken(k, i, bad, outliers)
    PROVE  k \notin Sustaining(n, bad, outliers)
<1>1. PICK j \in Live(k, i, outliers) \ bad : Cardinality(Live(k, j, outliers)) <= Sustained
  BY DEF Broken
<1>2. j \in FirstOf(k, n, outliers)
  BY <1>1 DEF FirstOf, Live
<1> QED
  BY <1>1, <1>2 DEF Sustaining

(* The first Sustained buckets are those up to the one that makes them so  *)
(* many.                                                                   *)
LEMMA FirstAreUpTo ==
    ASSUME NEW n \in Nat, NEW o \in Nat, NEW outliers, NEW e \in Live(o, n, outliers),
           Cardinality(Live(o, e, outliers)) = Sustained
    PROVE  FirstOf(o, n, outliers) = Live(o, e, outliers)
<1>1. e \in Nat /\ o <= e /\ e <= n /\ e \notin outliers /\ Sustained \in Nat
  BY AnalysisAssumption DEF Live
<1>2. ASSUME NEW j \in Live(o, n, outliers)
      PROVE  Cardinality(Live(o, j, outliers)) <= Sustained <=> j <= e
  <2>1. j \in Nat /\ o <= j /\ j \notin outliers
    BY <1>2 DEF Live
  <2>2. CASE j <= e
    BY <1>1, <2>1, <2>2, LivePart
  <2>3. CASE j > e
    <3>1. j - 1 \in Nat /\ e <= j - 1 /\ (j - 1) + 1 = j /\ o <= (j - 1) + 1
      BY <1>1, <2>1, <2>3
    <3>2. Cardinality(Live(o, j, outliers)) = Cardinality(Live(o, j - 1, outliers)) + 1
      BY <2>1, <3>1, LiveCount
    <3>3. Cardinality(Live(o, j - 1, outliers)) >= Sustained
      BY <1>1, <3>1, LivePart
    <3>4. Cardinality(Live(o, j - 1, outliers)) \in Nat
      BY <3>1, LiveCount
    <3> QED
      BY <1>1, <2>3, <3>2, <3>3, <3>4
  <2> QED
    BY <1>1, <2>1, <2>2, <2>3
<1>3. FirstOf(o, n, outliers) = {j \in Live(o, n, outliers) : j <= e}
  BY <1>2 DEF FirstOf, Live
<1>4. {j \in Live(o, n, outliers) : j <= e} = Live(o, e, outliers)
  BY <1>1 DEF Live
<1> QED
  BY <1>3, <1>4

(* The onset is the first bucket at which a sustained run begins.          *)
LEMMA OnsetIsFirst ==
    ASSUME NEW n \in Nat, NEW bad, NEW outliers
    PROVE  LET can == Sustaining(n, bad, outliers)
           IN  Onset(n, bad, outliers) = IF can = {} THEN NoFinding ELSE Min(can)
<1> DEFINE can == Sustaining(n, bad, outliers)
           acc == Scan(n, bad, outliers)[n]
<1>1. Warmup \in Nat /\ Sustained \in Nat /\ Sustained >= 1
  BY AnalysisAssumption
<1>2. Onset(n, bad, outliers) = IF acc.hit THEN acc.onset ELSE NoFinding
  BY DEF Onset
<1>3. CASE n < Warmup
  <2>1. acc = NoRun
    BY <1>1, <1>3, ScanSteps
  <2>2. can = {}
    BY <1>1, <1>3 DEF Sustaining, Live
  <2> QED
    BY <1>2, <2>1, <2>2 DEF NoRun
<1>4. CASE Warmup <= n
  <2> HIDE DEF acc
  <2>1. Scanned(acc, n, bad, outliers)
    BY <1>4, ScanKnows DEF acc
  <2>2. CASE ~acc.hit
    <3> DEFINE o == Begins(acc, n)
    <3>1. Running(acc, n, bad, outliers) /\ o \in Nat /\ o <= n + 1 /\ o >= Warmup + 1
      BY <1>1, <2>1, <2>2 DEF Scanned, Running
    <3>2. ASSUME NEW k \in Live(Warmup + 1, n, outliers)
          PROVE  k \notin can
      <4>1. k \in Nat /\ k <= n /\ k >= Warmup + 1
        BY <1>1, <3>2 DEF Live
      <4>2. CASE k < o
        <5>1. k \in Live(Warmup + 1, o - 1, outliers) /\ o - 1 \in Nat /\ o - 1 <= n
          BY <1>1, <3>1, <3>2, <4>1, <4>2 DEF Live
        <5>2. Broken(k, o - 1, bad, outliers)
          BY <3>1, <5>1 DEF Running, NoneBefore
        <5> QED
          BY <4>1, <5>1, <5>2, BrokenIsNot
      <4>3. CASE k >= o
        <5>1. FirstOf(k, n, outliers) \in SUBSET Live(o, n, outliers)
          BY <3>1, <4>1, <4>3 DEF FirstOf, Live
        <5>2. /\ IsFiniteSet(Live(o, n, outliers))
              /\ Cardinality(Live(o, n, outliers)) < Sustained
              /\ Cardinality(Live(o, n, outliers)) \in Nat
          BY <3>1, LiveCount DEF Running
        <5>3. IsFiniteSet(FirstOf(k, n, outliers))
          BY <5>1, <5>2, FS_Subset
        <5>4. /\ Cardinality(FirstOf(k, n, outliers)) \in Nat
              /\ Cardinality(FirstOf(k, n, outliers)) <= Cardinality(Live(o, n, outliers))
          BY <5>1, <5>2, <5>3, FS_Subset, FS_CardinalityType
        <5> QED
          BY <1>1, <5>2, <5>4 DEF Sustaining
      <4> QED
        BY <3>1, <4>1, <4>2, <4>3
    <3>3. can = {}
      BY <3>2 DEF Sustaining
    <3> QED
      BY <1>2, <2>2, <3>3
  <2>3. CASE acc.hit
    <3> DEFINE o == acc.onset
    <3>1. Sustains(o, n, bad, outliers)
      BY <2>1, <2>3 DEF Scanned
    <3>2. o \in Nat /\ o >= Warmup + 1 /\ o <= n
      BY <1>1, <3>1 DEF Sustains, Live
    <3>3. o \in can
      <4>1. PICK e \in Live(o, n, outliers) : /\ Cardinality(Live(o, e, outliers)) = Sustained
                                             /\ Live(o, e, outliers) \subseteq bad
        BY <3>1 DEF Sustains
      <4>2. FirstOf(o, n, outliers) = Live(o, e, outliers)
        BY <3>2, <4>1, FirstAreUpTo
      <4> QED
        BY <3>1, <4>1, <4>2 DEF Sustaining, Sustains
    <3>4. ASSUME NEW k \in can PROVE k \in Nat /\ o <= k
      <4>1. k \in Live(Warmup + 1, n, outliers) /\ k \in Nat
        BY <1>1 DEF Sustaining, Live
      <4>2. ASSUME k < o PROVE FALSE
        <5>1. k \in Live(Warmup + 1, o - 1, outliers) /\ o - 1 \in Nat /\ o - 1 <= n
          BY <1>1, <3>2, <4>1, <4>2 DEF Live
        <5>2. Broken(k, o - 1, bad, outliers)
          BY <3>1, <5>1 DEF Sustains, NoneBefore
        <5> QED
          BY <4>1, <5>1, <5>2, BrokenIsNot
      <4> QED
        BY <3>2, <4>1, <4>2
    <3> HIDE DEF can
    <3>5. Min(can) = o
      BY <3>2, <3>3, <3>4 DEF Min
    <3> QED
      BY <1>2, <2>3, <3>3, <3>5 DEF can
  <2> QED
    BY <2>2, <2>3
<1> QED
  BY <1>1, <1>3, <1>4

(* An onset is an active bucket.                                           *)
LEMMA OnsetRange ==
    ASSUME NEW n \in Nat, NEW bad, NEW outliers, Onset(n, bad, outliers) # NoFinding
    PROVE  Onset(n, bad, outliers) \in Warmup + 1 .. n
<1> DEFINE can == Sustaining(n, bad, outliers)
<1>1. can # {} /\ Onset(n, bad, outliers) = Min(can)
  BY OnsetIsFirst
<1>2. can \in SUBSET Nat /\ can \subseteq Warmup + 1 .. n
  BY AnalysisAssumption DEF Sustaining, Live
<1> HIDE DEF can
<1>3. \E m \in can : \A k \in can : m <= k
  BY <1>1, <1>2, LeastNumber
<1>4. Min(can) \in can
  BY <1>3 DEF Min
<1> QED
  BY <1>1, <1>2, <1>4

(* Smoothing a series keeps its buckets.                                   *)
LEMMA SmoothedLength ==
    ASSUME NEW s, NEW n \in Nat, DOMAIN s = 1 .. n
    PROVE  DOMAIN Smoothed(s) = 1 .. n /\ Len(Smoothed(s)) = n
<1> DEFINE smooth == Smoothed(s)
           S == {smooth[i] : i \in 1 .. n}
<1>1. DOMAIN smooth = 1 .. n /\ smooth = [i \in 1 .. n |-> smooth[i]]
  BY DEF Smoothed
<1> HIDE DEF smooth
<1>2. smooth \in [1 .. n -> S]
  BY <1>1
<1>3. smooth \in Seq(S)
  BY <1>2
<1>4. Len(smooth) \in Nat /\ DOMAIN smooth = 1 .. Len(smooth)
  BY <1>3, LenProperties
<1>5. Len(smooth) = n
  BY <1>1, <1>4
<1> QED
  BY <1>1, <1>5 DEF smooth

(* The analysis of a run finds the earliest sustained degradation.         *)
LEMMA EarliestOnset ==
    ASSUME NEW run, IsRun(run)
    PROVE  OnsetIsEarliest(run)
<1> DEFINE out == Outliers(run.p90)
           n == Len(run.p90)
           scan == LatencyFinding(run, run.sla, 1)
<1>1. n \in Nat /\ DOMAIN run.p90 = 1 .. n
  BY LenProperties DEF IsRun
<1>2. Len(Smoothed(run.p90)) = n
  BY <1>1, SmoothedLength
<1>3. scan.onset = Onset(n, scan.bad, out)
  BY <1>2 DEF LatencyFinding
<1>4. Active(run.p90) \ out = Live(Warmup + 1, n, out)
  BY <1>1, AnalysisAssumption DEF Active, Live
<1> HIDE DEF out, scan, n
<1>5. scan.onset = IF Sustaining(n, scan.bad, out) = {} THEN NoFinding
                   ELSE Min(Sustaining(n, scan.bad, out))
  BY <1>1, <1>3, OnsetIsFirst
<1> QED
  BY <1>4, <1>5 DEF OnsetIsEarliest, Sustaining, out, scan, n

(* The case is one of the given, and what is detected and answered, if     *)
(* anything is, is its findings and its report.                            *)
AnalysisInv ==
    /\ case \in Cases
    /\ detected = NoFinding \/ detected = Phase1(case)
    /\ answer = NoFinding \/ answer = Phase2(case, Phase1(case))

LEMMA AnalysisInvariant == AnalysisSpec => []AnalysisInv
<1>1. AnalysisInit => AnalysisInv
  BY DEF AnalysisInit, AnalysisInv
<1>2. AnalysisInv /\ [analyze_bottlenecks]_analysisVars => AnalysisInv'
  BY DEF AnalysisInv, analyze_bottlenecks, Detect, Conclude, analysisVars
<1> QED
  BY <1>1, <1>2, PTL DEF AnalysisSpec

(* Every analysis finds the earliest sustained degradation: the onset that *)
(* detect_latency_degradation's one pass over the buckets returns is the   *)
(* first bucket from which the required number of buckets, outliers left   *)
(* aside, are all degraded.                                                *)
THEOREM OnsetsAreFirst == AnalysisSpec => []OnsetsAreEarliest
<1>1. AnalysisInv => OnsetsAreEarliest
  BY AnalysisAssumption, EarliestOnset DEF AnalysisInv, OnsetsAreEarliest
<1> QED
  BY <1>1, AnalysisInvariant, PTL

-----------------------------------------------------------------------------
(* The findings and the report.                                            *)

\* A finding of the detectors: it is real if it is a bottleneck, and one that is
\* real persists, and began at a load.
IsFound(f) ==
    /\ f.type \in Degradations
    /\ IsReal(f) <=> f.classification = "bottleneck"
    /\ IsReal(f) => f.concurrency \in Nat /\ _check_persistence(f.share)

AreFound(findings) == \E S : findings \in Seq(S) /\ \A f \in S : IsFound(f)

LEMMA FoundNothing == AreFound(<<>>)
<1> DEFINE S == {}
<1>1. <<>> \in Seq(S) /\ \A f \in S : IsFound(f)
  BY EmptySeq
<1> HIDE DEF S
<1> QED
  BY <1>1 DEF AreFound

LEMMA FoundOne ==
    ASSUME NEW f, IsFound(f)
    PROVE  AreFound(<<f>>)
<1> DEFINE S == {f}
<1>1. <<f>> \in Seq(S) /\ \A g \in S : IsFound(g)
  OBVIOUS
<1> HIDE DEF S
<1> QED
  BY <1>1 DEF AreFound

LEMMA FoundMore ==
    ASSUME NEW these, NEW those, AreFound(these), AreFound(those)
    PROVE  /\ AreFound(these \o those)
           /\ ToSet(these \o those) = ToSet(these) \cup ToSet(those)
<1>1. PICK S : these \in Seq(S) /\ \A f \in S : IsFound(f)
  BY DEF AreFound
<1>2. PICK T : those \in Seq(T) /\ \A f \in T : IsFound(f)
  BY DEF AreFound
<1> DEFINE U == S \cup T
<1>3. \A f \in U : IsFound(f)
  BY <1>1, <1>2
<1>4. these \in Seq(U) /\ those \in Seq(U)
  BY <1>1, <1>2
<1>5. these \o those \in Seq(U)
  BY <1>4, ConcatProperties
<1>6. Range(these \o those) = Range(these) \cup Range(those)
  BY <1>4, RangeConcatenation
<1> QED
  BY <1>3, <1>5, <1>6 DEF AreFound, ToSet, Range

(* What _make_finding makes of an onset is a finding, real if it persists. *)
LEMMA MadeIsFound ==
    ASSUME NEW type \in Degradations, NEW scope, NEW of, NEW onset, of.conc[onset] \in Nat,
           NEW num, NEW den, NEW bounds, NEW share
    PROVE  IsFound(_make_finding(type, scope, of, onset, num, den, bounds, share))
<1> DEFINE f == _make_finding(type, scope, of, onset, num, den, bounds, share)
<1>1. /\ f.type = type /\ f.share = share /\ f.concurrency = of.conc[onset]
      /\ f.classification = IF _check_persistence(share) THEN "bottleneck"
                                                         ELSE "transient_spike"
      /\ f.severity = _classify_severity_v2(f.classification, num, den, bounds, share,
                                            scope = Overall)
  BY DEF _make_finding
<1>2. f.severity # "info"
  BY <1>1 DEF _classify_severity_v2
<1> HIDE DEF f
<1>3. IsReal(f) <=> _check_persistence(share)
  BY <1>1, <1>2 DEF IsReal
<1> QED
  BY <1>1, <1>3 DEF IsFound, f

LEMMA LatencyFound ==
    ASSUME NEW run, IsRun(run)
    PROVE  AreFound(_detect_latency_degradation(run))
<1>1. /\ Len(run.p90) \in Nat /\ DOMAIN run.p90 = 1 .. Len(run.p90) /\ Warmup \in Nat
      /\ run.conc \in [DOMAIN run.p90 -> Nat]
  BY LenProperties, AnalysisAssumption DEF IsRun
<1> DEFINE p90 == Smoothed(run.p90)
           found(scan, num, den) ==
               IF scan.onset = NoFinding THEN <<>>
               ELSE <<_make_finding("latency_degradation", Overall, run, scan.onset,
                          Abs(p90[scan.onset] * den - num), num, Latency,
                          Share(scan.n, scan.bad, scan.onset))>>
<1>2. ASSUME NEW limit, NEW of, NEW num, NEW den
      PROVE  AreFound(found(LatencyFinding(run, limit, of), num, den))
  <2> DEFINE scan == LatencyFinding(run, limit, of)
  <2>1. scan.onset = Onset(Len(p90), scan.bad, Outliers(run.p90))
    BY DEF LatencyFinding
  <2>2. Len(p90) = Len(run.p90)
    BY <1>1, SmoothedLength
  <2> HIDE DEF scan, p90
  <2>3. scan.onset # NoFinding => run.conc[scan.onset] \in Nat
    BY <1>1, <2>1, <2>2, OnsetRange
  <2>4. CASE scan.onset = NoFinding
    BY <2>4, FoundNothing DEF scan
  <2>5. CASE scan.onset # NoFinding
    <3>1. "latency_degradation" \in Degradations
      BY DEF Degradations
    <3>2. IsFound(_make_finding("latency_degradation", Overall, run, scan.onset,
                      Abs(p90[scan.onset] * den - num), num, Latency,
                      Share(scan.n, scan.bad, scan.onset)))
      BY <2>3, <2>5, <3>1, MadeIsFound
    <3> QED
      BY <2>5, <3>2, FoundOne DEF scan
  <2> QED
    BY <2>4, <2>5
<1> DEFINE sum == Total(p90, Baseline(run.p90, Outliers(run.p90)))
           size == Cardinality(Baseline(run.p90, Outliers(run.p90)))
           slow == found(LatencyFinding(run, sum * (100 + LatencyPct), 100 * size), sum, size)
           over == found(LatencyFinding(run, run.sla, 1), run.sla, 1)
<1>3. AreFound(slow) /\ AreFound(over)
  <2> HIDE DEF found
  <2> QED
    BY <1>2
<1>4. _detect_latency_degradation(run) = IF sum <= 0 THEN <<>> ELSE slow \o over
  BY DEF _detect_latency_degradation
<1> HIDE DEF slow, over, sum
<1>5. AreFound(slow \o over) /\ AreFound(<<>>)
  BY <1>3, FoundMore, FoundNothing
<1> QED
  BY <1>4, <1>5

LEMMA ErrorsFound ==
    ASSUME NEW run, IsRun(run)
    PROVE  AreFound(_detect_error_rate_increase(run))
<1>1. /\ Len(run.p90) \in Nat /\ DOMAIN run.p90 = 1 .. Len(run.p90) /\ Warmup \in Nat
      /\ DOMAIN run.errors = DOMAIN run.p90 /\ run.conc \in [DOMAIN run.p90 -> Nat]
  BY LenProperties, AnalysisAssumption DEF IsRun
<1>2. Len(Smoothed(run.errors)) = Len(run.p90)
  BY <1>1, SmoothedLength
<1>3. "error_rate_increase" \in Degradations
  BY DEF Degradations
<1>4. ASSUME NEW bad, NEW num, NEW den, NEW bounds, NEW share, NEW onset,
             onset = Onset(Len(Smoothed(run.errors)), bad, Outliers(run.p90)),
             onset # NoFinding
      PROVE  AreFound(<<_make_finding("error_rate_increase", Overall, run, onset, num, den,
                            bounds, share)>>)
  <2>1. run.conc[onset] \in Nat
    BY <1>1, <1>2, <1>4, OnsetRange
  <2> QED
    BY <1>3, <2>1, MadeIsFound, FoundOne
<1> QED
  <2> DEFINE out == Outliers(run.p90)
             rate == Smoothed(run.errors)
             sum == Total(rate, Baseline(run.p90, out))
             size == Cardinality(Baseline(run.p90, out))
             limit(r) == IF sum > 0 /\ 2 * sum < ErrorAbs * size THEN r * size >= 2 * sum
                                                                  ELSE r >= ErrorAbs
             bad == {i \in Active(rate) : limit(rate[i])}
             onset == Onset(Len(rate), bad, out)
             num == IF sum > 0 THEN Abs(rate[onset] * size - sum) ELSE rate[onset]
             den == IF sum > 0 THEN sum ELSE 1
             finding == _make_finding("error_rate_increase", Overall, run, onset, num, den,
                         {50, 200, 500}, Share(Len(rate), bad, onset))
  <2>1. onset # NoFinding => AreFound(<<finding>>)
    BY <1>4
  <2>2. _detect_error_rate_increase(run) = IF onset = NoFinding THEN <<>> ELSE <<finding>>
    BY DEF _detect_error_rate_increase
  <2> HIDE DEF onset, finding
  <2> QED
    BY <2>1, <2>2, FoundNothing

LEMMA PlateauFound ==
    ASSUME NEW run, IsRun(run)
    PROVE  AreFound(_detect_throughput_plateau(run))
<1>1. /\ Len(run.p90) \in Nat /\ DOMAIN run.p90 = 1 .. Len(run.p90) /\ Warmup \in Nat
      /\ DOMAIN run.tps = DOMAIN run.p90 /\ run.conc \in [DOMAIN run.p90 -> Nat]
  BY LenProperties, AnalysisAssumption DEF IsRun
<1>2. Len(Smoothed(run.tps)) = Len(run.p90)
  BY <1>1, SmoothedLength
<1>3. "throughput_plateau" \in Degradations
  BY DEF Degradations
<1>4. ASSUME NEW bad, NEW num, NEW den, NEW bounds, NEW share, NEW onset,
             onset = Onset(Len(Smoothed(run.tps)), bad, Outliers(run.p90)),
             onset # NoFinding
      PROVE  AreFound(<<_make_finding("throughput_plateau", Overall, run, onset, num, den,
                            bounds, share)>>)
  <2>1. run.conc[onset] \in Nat
    BY <1>1, <1>2, <1>4, OnsetRange
  <2> QED
    BY <1>3, <2>1, MadeIsFound, FoundOne
<1> QED
  BY <1>4, FoundNothing, Zenon DEF _detect_throughput_plateau

(* A label's finding is one, and its own.                                  *)
LEMMA LabelFound ==
    ASSUME NEW run, IsRun(run), NEW l \in DOMAIN run.labels, LabelFinding(run, l) # NoFinding
    PROVE  IsFound(LabelFinding(run, l)) /\ LabelFinding(run, l).scope = l
<1> DEFINE label == run.labels[l]
           n == Len(Smoothed(label.p90))
           known == [type |-> "multi_tier_bottleneck", scope |-> l, onset |-> Warmup + 1,
                     classification |-> "known_slow_endpoint", share |-> [bad |-> 0, of |-> 1],
                     concurrency |-> label.conc[Warmup + 1], severity |-> "info"]
<1>1. /\ label.p90 \in Seq(Nat) /\ label.conc \in Seq(Nat)
      /\ Len(label.conc) = Len(label.p90) /\ Warmup \in Nat
  <2> DEFINE L == [at : Seq(DOMAIN run.p90), p90 : Seq(Nat), conc : Seq(Nat), sla : Nat,
                   requests : Nat]
  <2>1. run.labels \in Seq(L) /\ Len(label.conc) = Len(label.p90)
    BY DEF IsRun
  <2>2. label \in L
    <3> HIDE DEF L
    <3> QED
      BY <2>1
  <2> QED
    BY <2>1, <2>2, AnalysisAssumption
<1>2. /\ Len(label.p90) \in Nat /\ DOMAIN label.p90 = 1 .. Len(label.p90)
      /\ label.conc \in [1 .. Len(label.p90) -> Nat]
  BY <1>1, LenProperties
<1>3. n = Len(label.p90)
  BY <1>2, SmoothedLength
<1>4. "multi_tier_bottleneck" \in Degradations
  BY DEF Degradations
<1>5. IsFound(known) /\ known.scope = l
  BY <1>4 DEF IsFound, IsReal
<1>6. ASSUME NEW bad, NEW num, NEW den, NEW bounds, NEW share, NEW onset,
             onset = Onset(n, bad, Outliers(label.p90)), onset # NoFinding
      PROVE  /\ IsFound(_make_finding("multi_tier_bottleneck", l, label, onset, num, den,
                            bounds, share))
             /\ _make_finding("multi_tier_bottleneck", l, label, onset, num, den,
                    bounds, share).scope = l
  <2> HIDE DEF n, label
  <2>1. label.conc[onset] \in Nat
    BY <1>1, <1>2, <1>3, <1>6, OnsetRange
  <2>2. IsFound(_make_finding("multi_tier_bottleneck", l, label, onset, num, den,
                    bounds, share))
    BY <1>4, <2>1, MadeIsFound
  <2> QED
    BY <2>2 DEF _make_finding
<1> DEFINE p90 == Smoothed(label.p90)
           base == {i \in Active(p90) : i <= Warmup + Sustained}
           sum == Total(p90, base)
           size == Cardinality(base)
           bad == {i \in Active(p90) : /\ 100 * size * p90[i] >= (100 + LatencyPct) * sum
                                       /\ p90[i] >= label.sla}
           onset == Onset(n, bad, Outliers(label.p90))
           num == IF sum > 0 THEN p90[onset] * size - sum ELSE 0
           den == IF sum > 0 THEN sum ELSE 1
           found == _make_finding("multi_tier_bottleneck", l, label, onset, num, den, Latency,
                        Share(n, bad, onset))
<1>7. onset # NoFinding => IsFound(found) /\ found.scope = l
  <2> HIDE DEF bad, num, den, label, n
  <2> QED
    BY <1>6
<1>8. LabelFinding(run, l) = IF label.requests < 10 \/ n <= Warmup THEN NoFinding
                             ELSE IF sum >= label.sla * size THEN known
                             ELSE IF onset = NoFinding THEN NoFinding ELSE found
  BY DEF LabelFinding
<1> HIDE DEF known, label, n, sum, onset, found
<1> QED
  BY <1>5, <1>7, <1>8

LEMMA LabelsFound ==
    ASSUME NEW run, IsRun(run)
    PROVE  /\ IsFiniteSet(LabelFindings(run))
           /\ \A f \in LabelFindings(run) : IsFound(f) /\ f.scope \in Nat
<1> DEFINE S == DOMAIN run.labels
           finding == [l \in S |-> LabelFinding(run, l)]
           T == {finding[l] : l \in S}
<1>1. Len(run.labels) \in Nat /\ S = 1 .. Len(run.labels)
  BY LenProperties DEF IsRun
<1>2. IsFiniteSet(S)
  BY <1>1, FS_Interval
<1>3. finding \in Surjection(S, T)
  BY DEF Surjection
<1>4. IsFiniteSet(T)
  <2> HIDE DEF finding, T
  <2> QED
    BY <1>2, <1>3, FS_Surjection
<1>5. LabelFindings(run) \in SUBSET T
  BY DEF LabelFindings
<1>6. IsFiniteSet(LabelFindings(run))
  <2> HIDE DEF T
  <2> QED
    BY <1>4, <1>5, FS_Subset
<1>7. ASSUME NEW f \in LabelFindings(run) PROVE IsFound(f) /\ f.scope \in Nat
  <2>1. PICK l \in S : f = LabelFinding(run, l) /\ f # NoFinding
    BY DEF LabelFindings
  <2> QED
    BY <1>1, <2>1, LabelFound
<1> QED
  BY <1>6, <1>7

(* The elements of a finite set, one after the other.                      *)
LEMMA SequenceOfSet ==
    ASSUME NEW S, IsFiniteSet(S)
    PROVE  SetToSeq(S) \in Seq(S) /\ ToSet(SetToSeq(S)) = S
<1> DEFINE s == SetToSeq(S)
           N == Cardinality(S)
<1>1. N \in Nat /\ \E f \in [1 .. N -> S] : IsInjective(f)
  BY FS_CardinalityType DEF ExistsBijection, Bijection, Injection
<1>2. s \in [1 .. N -> S] /\ IsInjective(s)
  BY <1>1 DEF SetToSeq
<1> HIDE DEF s
<1>3. s \in Injection(1 .. N, S)
  BY <1>2 DEF Injection
<1>4. Cardinality(1 .. N) = N
  BY <1>1, FS_Interval
<1> HIDE DEF N
<1>5. s \in Surjection(1 .. N, S)
  BY <1>3, <1>4, FS_Injection DEF N
<1>6. \A x \in S : \E i \in 1 .. N : s[i] = x
  BY <1>5 DEF Surjection
<1>7. s \in Seq(S)
  BY <1>1, <1>2
<1> QED
  BY <1>2, <1>6, <1>7 DEF ToSet, s

(* Of what is really degraded among the labels, the first one in a report  *)
(* began at the least load: no cap passes it over.                         *)
LEMMA LeastLabelIsForemost ==
    ASSUME NEW S, IsFiniteSet(S), \A f \in S : IsFound(f) /\ f.scope \in Nat,
           NEW real \in S, IsReal(real), NEW most \in Nat, most > 0
    PROVE  \E f \in Foremost(S, Ahead, most) : IsReal(f) /\ f.concurrency <= real.concurrency
<1> DEFINE R == {f \in S : IsReal(f)}
           loads == {f.concurrency : f \in R}
<1>1. \A f \in R : f.concurrency \in Nat /\ f.scope \in Nat
  BY DEF IsFound
<1>2. loads \in SUBSET Nat /\ loads # {}
  BY <1>1
<1>3. PICK load \in loads : \A k \in loads : load <= k
  BY <1>2, LeastNumber
<1> DEFINE T == {f \in R : f.concurrency = load}
           scopes == {f.scope : f \in T}
<1>4. scopes \in SUBSET Nat /\ scopes # {}
  BY <1>1
<1>5. PICK scope \in scopes : \A k \in scopes : scope <= k
  BY <1>4, LeastNumber
<1>6. PICK first \in T : first.scope = scope
  OBVIOUS
<1>7. first \in S /\ IsReal(first) /\ first.concurrency = load
  OBVIOUS
<1>8. first.concurrency <= real.concurrency
  BY <1>3, <1>7
<1>9. ASSUME NEW g \in S, Ahead(g, first) PROVE FALSE
  <2>1. first.classification = "bottleneck"
    BY <1>7 DEF IsFound
  <2>2. g.classification = "bottleneck"
    BY <1>9, <2>1 DEF Ahead
  <2>3. g \in R /\ g.concurrency \in Nat /\ g.scope \in Nat
    BY <1>1, <2>2 DEF IsFound
  <2>4. load <= g.concurrency /\ load \in Nat
    BY <1>2, <1>3, <2>3
  <2>5. \/ g.concurrency < load
        \/ g.concurrency = load /\ g.scope < scope
    BY <1>6, <1>7, <1>9, <2>1, <2>2 DEF Ahead, Met
  <2>6. g.concurrency = load => scope <= g.scope
    BY <1>5, <2>3
  <2>7. scope \in Nat
    BY <1>4
  <2> QED
    BY <2>3, <2>4, <2>5, <2>6, <2>7
<1>10. {g \in S : Ahead(g, first)} = {}
  BY <1>9
<1>11. Cardinality({g \in S : Ahead(g, first)}) < most
  BY <1>10, FS_EmptySet
<1>12. first \in Foremost(S, Ahead, most)
  BY <1>7, <1>11 DEF Foremost
<1> QED
  BY <1>7, <1>8, <1>12

(* What is reported of the labels.                                         *)
LEMMA MultiTierFound ==
    ASSUME NEW run, IsRun(run)
    PROVE  /\ AreFound(_detect_multi_tier_bottlenecks(run))
           /\ ToSet(_detect_multi_tier_bottlenecks(run)) \subseteq LabelFindings(run)
           /\ \A f \in LabelFindings(run) : IsReal(f) =>
                 \E g \in ToSet(_detect_multi_tier_bottlenecks(run)) :
                    IsReal(g) /\ g.concurrency <= f.concurrency
<1> DEFINE labels == LabelFindings(run)
           slow == {f \in labels : f.classification = "known_slow_endpoint"}
           S == Foremost(labels \ slow, Ahead, 5)
           T == Foremost(slow, Met, 3)
<1>1. IsFiniteSet(labels) /\ \A f \in labels : IsFound(f) /\ f.scope \in Nat
  BY LabelsFound
<1>2. S \in SUBSET labels /\ T \in SUBSET labels
  BY DEF Foremost
<1>3. _detect_multi_tier_bottlenecks(run) = SetToSeq(S) \o SetToSeq(T)
  BY DEF _detect_multi_tier_bottlenecks
<1>4. ASSUME NEW f \in labels, IsReal(f)
      PROVE  \E g \in S : IsReal(g) /\ g.concurrency <= f.concurrency
  <2>1. f.classification = "bottleneck"
    BY <1>1, <1>4 DEF IsFound
  <2>2. f \in labels \ slow
    BY <1>4, <2>1
  <2>3. IsFiniteSet(labels \ slow)
    BY <1>1, FS_Subset
  <2> HIDE DEF labels, slow
  <2> QED
    BY <1>1, <1>4, <2>2, <2>3, LeastLabelIsForemost
<1> HIDE DEF labels, slow, S, T
<1>5. IsFiniteSet(S) /\ IsFiniteSet(T)
  BY <1>1, <1>2, FS_Subset
<1>6. /\ SetToSeq(S) \in Seq(S) /\ ToSet(SetToSeq(S)) = S
      /\ SetToSeq(T) \in Seq(T) /\ ToSet(SetToSeq(T)) = T
  BY <1>5, SequenceOfSet
<1>7. AreFound(SetToSeq(S)) /\ AreFound(SetToSeq(T))
  BY <1>1, <1>2, <1>6 DEF AreFound
<1>8. /\ AreFound(_detect_multi_tier_bottlenecks(run))
      /\ ToSet(_detect_multi_tier_bottlenecks(run)) = S \cup T
  BY <1>3, <1>6, <1>7, FoundMore
<1> QED
  BY <1>2, <1>4, <1>8 DEF labels

LEMMA PhaseFound ==
    ASSUME NEW run, IsRun(run)
    PROVE  /\ AreFound(Phase1(run)) /\ AreFound(OverallFindings(run))
           /\ ToSet(Phase1(run)) =
                  ToSet(OverallFindings(run)) \cup ToSet(_detect_multi_tier_bottlenecks(run))
<1>1. /\ AreFound(_detect_latency_degradation(run))
      /\ AreFound(_detect_error_rate_increase(run))
      /\ AreFound(_detect_throughput_plateau(run))
      /\ AreFound(_detect_multi_tier_bottlenecks(run))
  BY LatencyFound, ErrorsFound, PlateauFound, MultiTierFound
<1>2. AreFound(OverallFindings(run))
  BY <1>1, FoundMore, Zenon DEF OverallFindings
<1> QED
  BY <1>1, <1>2, FoundMore, Zenon DEF Phase1

(* A capacity risk is one more finding, and no degradation.                *)
LEMMA RisksAreNotDegradations ==
    ASSUME NEW run, NEW windows
    PROVE  \E S : /\ _detect_capacity_risks(run, windows) \in Seq(S)
                  /\ \A f \in S : f.type \notin Degradations
<1> DEFINE n == Len(run.cpu)
           high == {i \in Active(run.cpu) : run.cpu[i] >= CpuHigh}
           onset == Onset(n, high, {})
           share == Share(n, high, onset)
           risk == [type |-> "capacity_risk", scope |-> Infrastructure, onset |-> onset,
                    classification |-> "capacity_risk", share |-> share,
                    concurrency |-> run.conc[onset], severity |-> "medium"]
           S == {risk}
<1>1. \A f \in S : f.type \notin Degradations
  BY DEF Degradations
<1>2. _detect_capacity_risks(run, windows) \in {<<>>, <<risk>>}
  BY DEF _detect_capacity_risks
<1> HIDE DEF risk
<1>3. <<>> \in Seq(S) /\ <<risk>> \in Seq(S)
  OBVIOUS
<1> HIDE DEF S
<1> QED
  BY <1>1, <1>2, <1>3

(* The windows, the threshold and the headline are of the same findings,   *)
(* those that are real, and no label left out of the report began to       *)
(* degrade at less load than all that are in it.                           *)
LEMMA ReportOfFindings ==
    ASSUME NEW run, IsRun(run)
    PROVE  ReportAgrees(run, Phase2(run, Phase1(run)))
<1> DEFINE first == Phase1(run)
           n == Len(run.p90)
           windows == _extract_degradation_windows(first, n)
           risks == _detect_capacity_risks(run, windows)
           all == first \o risks
           report == Phase2(run, first)
           real == {i \in DOMAIN first : IsReal(first[i])}
           least == {i \in DOMAIN all : all[i].type \in Degradations /\ IsReal(all[i])}
           told == {first[i].concurrency : i \in real}
           loads == {f.concurrency : f \in Degraded(run)}
<1>1. /\ report.windows = windows /\ report.threshold = _get_threshold_concurrency(all)
      /\ report.headline = _generate_headline(all) /\ report.findings = all
  BY DEF Phase2
<1>2. /\ \A w \in windows : \E i \in real :
             w.last = IF _check_persistence(first[i].share) THEN n
                      ELSE Min({first[i].onset + Sustained, n})
      /\ \A i \in real : \E w \in windows : w.finding = i
  <2> DEFINE last(i) == IF _check_persistence(first[i].share) THEN n
                        ELSE Min({first[i].onset + Sustained, n})
             window(i) == [finding |-> i, first |-> first[i].onset, last |-> last(i)]
  <2>1. windows = {window(i) : i \in real}
    BY Zenon DEF _extract_degradation_windows
  <2> HIDE DEF last, windows, real
  <2>2. \A i \in real : window(i) \in windows
    BY <2>1
  <2>3. \A i \in real : window(i).finding = i /\ window(i).last = last(i)
    BY Zenon
  <2> HIDE DEF window
  <2>4. \A w \in windows : \E i \in real : w.last = last(i)
    BY <2>1, <2>3
  <2> QED
    BY <2>2, <2>3, <2>4 DEF last
<1>3. _get_threshold_concurrency(all) =
          IF least = {} THEN NoFinding ELSE Min({all[i].concurrency : i \in least})
  BY DEF _get_threshold_concurrency
<1>4. PICK F : first \in Seq(F) /\ \A f \in F : IsFound(f)
  BY PhaseFound DEF AreFound
<1>5. PICK R : risks \in Seq(R) /\ \A f \in R : f.type \notin Degradations
  BY RisksAreNotDegradations
<1> HIDE DEF first, windows, risks, report
<1>6. \A i \in real : /\ first[i].type \in Degradations /\ first[i].concurrency \in Nat
                      /\ _check_persistence(first[i].share)
  <2>1. \A i \in DOMAIN first : IsFound(first[i])
    BY <1>4
  <2> QED
    BY <2>1 DEF IsFound
<1>7. real = least /\ \A i \in real : all[i] = first[i]
  <2> DEFINE U == F \cup R
  <2>1. first \in Seq(U) /\ risks \in Seq(U)
    BY <1>4, <1>5
  <2>2. /\ Len(first) \in Nat /\ Len(risks) \in Nat
        /\ DOMAIN first = 1 .. Len(first) /\ DOMAIN risks = 1 .. Len(risks)
    BY <2>1, LenProperties
  <2>3. /\ DOMAIN all = 1 .. Len(first) + Len(risks)
        /\ \A i \in DOMAIN all :
               all[i] = IF i <= Len(first) THEN first[i] ELSE risks[i - Len(first)]
    <3>1. all \in Seq(U) /\ Len(all) = Len(first) + Len(risks)
      BY <2>1, ConcatProperties
    <3>2. DOMAIN all = 1 .. Len(all)
      BY <3>1, LenProperties
    <3> QED
      BY <2>1, <3>1, <3>2, ConcatProperties
  <2> HIDE DEF all
  <2>4. ASSUME NEW i \in DOMAIN all, i > Len(first) PROVE all[i].type \notin Degradations
    <3>1. i - Len(first) \in DOMAIN risks /\ all[i] = risks[i - Len(first)]
      BY <2>2, <2>3, <2>4
    <3> QED
      BY <1>5, <3>1
  <2>5. DOMAIN first \subseteq DOMAIN all /\ \A i \in DOMAIN first : all[i] = first[i]
    BY <2>2, <2>3
  <2>6. \A i \in DOMAIN all : i > Len(first) \/ i \in DOMAIN first
    BY <2>2, <2>3
  <2> QED
    BY <1>6, <2>4, <2>5, <2>6
<1>8. report.threshold = IF real = {} THEN NoFinding ELSE Min(told)
  <2>1. {all[i].concurrency : i \in least} = told
    <3> HIDE DEF real, least, all
    <3> QED
      BY <1>7
  <2> QED
    BY <1>1, <1>3, <1>7, <2>1
<1>9. told \in SUBSET Nat /\ loads \in SUBSET Nat /\ told \subseteq loads
      /\ \A k \in loads : \E m \in told : m <= k
  <2> DEFINE overall == ToSet(OverallFindings(run))
             labels == LabelFindings(run)
             multi == ToSet(_detect_multi_tier_bottlenecks(run))
  <2>1. ToSet(first) = overall \cup multi
    BY PhaseFound DEF first
  <2>2. /\ multi \subseteq labels
        /\ \A f \in labels : IsReal(f) =>
              \E g \in multi : IsReal(g) /\ g.concurrency <= f.concurrency
    BY MultiTierFound
  <2>3. \A f \in overall \cup labels : IsFound(f)
    <3>1. \A f \in overall : IsFound(f)
      BY PhaseFound DEF AreFound, ToSet
    <3> QED
      BY <3>1, LabelsFound
  <2>4. Degraded(run) = {f \in overall \cup labels : IsReal(f)}
    BY DEF Degraded
  <2> HIDE DEF overall, labels, multi
  <2>5. \A f \in Degraded(run) : f.concurrency \in Nat
    BY <2>3, <2>4 DEF IsFound
  <2>6. told = {f.concurrency : f \in {f \in ToSet(first) : IsReal(f)}}
    BY DEF ToSet
  <2>7. \A f \in ToSet(first) : IsReal(f) => f \in Degraded(run)
    BY <2>1, <2>2, <2>4
  <2>8. ASSUME NEW f \in Degraded(run)
        PROVE  \E g \in ToSet(first) : IsReal(g) /\ g.concurrency <= f.concurrency
    <3>1. CASE f \in overall
      <4>1. f.concurrency <= f.concurrency
        BY <2>5
      <4> QED
        BY <2>1, <2>4, <3>1, <4>1
    <3>2. CASE f \in labels
      BY <2>1, <2>2, <2>4, <3>2
    <3> QED
      BY <2>4, <3>1, <3>2
  <2> HIDE DEF told
  <2> QED
    BY <2>5, <2>6, <2>7, <2>8
<1>10. real = {} <=> loads = {}
  BY <1>9
<1>11. real # {} => Min(told) = Min(loads) /\ Min(told) \in told
  <2> SUFFICES ASSUME real # {} PROVE Min(told) = Min(loads) /\ Min(told) \in told
    OBVIOUS
  <2>1. told # {}
    OBVIOUS
  <2> HIDE DEF told, loads, real
  <2>2. PICK m \in told : \A k \in told : m <= k
    BY <1>9, <2>1, LeastNumber
  <2>3. m \in loads /\ \A k \in loads : m <= k
    BY <1>9, <2>2
  <2>4. Min(told) = m
    BY <1>9, <2>2, LeastIs
  <2>5. Min(loads) = m
    BY <1>9, <2>3, LeastIs
  <2> QED
    BY <2>2, <2>4, <2>5
<1>12. report.threshold = IF loads = {} THEN NoFinding ELSE Min(loads)
  BY <1>8, <1>10, <1>11
<1>13. report.threshold = NoFinding <=> loads = {}
  <2>1. loads = {} => report.threshold = NoFinding
    BY <1>12
  <2>2. ASSUME loads # {} PROVE report.threshold \in told
    <3>1. real # {}
      BY <1>10, <2>2
    <3>2. Min(told) = Min(loads) /\ Min(told) \in told
      BY <1>11, <3>1
    <3> HIDE DEF told, loads
    <3> QED
      BY <1>12, <2>2, <3>2
  <2>3. told \subseteq Nat /\ NoFinding \notin Nat
    BY <1>9, AnalysisAssumption
  <2> QED
    BY <2>1, <2>2, <2>3
<1>14. IF loads = {} THEN windows = {}
       ELSE \E w \in windows : report.findings[w.finding].concurrency = report.threshold
  <2>1. CASE loads = {}
    BY <1>2, <1>10, <2>1
  <2>2. CASE loads # {}
    <3>1. PICK i \in real : first[i].concurrency = Min(told)
      BY <1>10, <1>11, <2>2
    <3>2. PICK w \in windows : w.finding = i
      BY <1>2
    <3>3. report.findings[w.finding].concurrency = Min(told)
      BY <1>1, <1>7, <3>1, <3>2
    <3> QED
      BY <1>8, <2>2, <3>1, <3>3
  <2> QED
    BY <2>1, <2>2
<1>15. all # <<>> \/ real = {}
  <2>1. first = <<>> => real = {}
    OBVIOUS
  <2>2. all = <<>> => first = <<>>
    BY <1>4, <1>5
  <2> QED
    BY <2>1, <2>2
<1>16. (report.headline.says = "began degrading") <=> loads # {}
  <2> DEFINE threshold == _get_threshold_concurrency(all)
             factor == Head(SelectSeq(all, LAMBDA f : f.concurrency = threshold)).type
  <2>1. _generate_headline(all) =
            IF all = <<>> THEN [says |-> "no bottlenecks", factor |-> "none"]
            ELSE IF threshold # NoFinding THEN [says |-> "began degrading", factor |-> factor]
            ELSE [says |-> "no sustained degradation", factor |-> "none"]
    BY Zenon DEF _generate_headline
  <2> HIDE DEF factor, real, all, loads
  <2>2. threshold = NoFinding <=> loads = {}
    BY <1>1, <1>13
  <2> HIDE DEF threshold
  <2> DEFINE calm(says) == [says |-> says, factor |-> "none"]
             degrading == [says |-> "began degrading", factor |-> factor]
  <2>3. /\ calm("no bottlenecks").says # "began degrading"
        /\ calm("no sustained degradation").says # "began degrading"
        /\ degrading.says = "began degrading"
    OBVIOUS
  <2> HIDE DEF calm, degrading
  <2>4. report.headline = IF all = <<>> THEN calm("no bottlenecks")
                          ELSE IF threshold # NoFinding THEN degrading
                          ELSE calm("no sustained degradation")
    BY <1>1, <2>1 DEF calm, degrading
  <2>5. loads # {} <=> all # <<>> /\ threshold # NoFinding
    BY <1>10, <1>15, <2>2
  <2> QED
    BY <2>3, <2>4, <2>5
<1>17. \A w \in windows : w.last = n
  BY <1>2, <1>6
<1> QED
  BY <1>1, <1>12, <1>14, <1>16, <1>17 DEF ReportAgrees, report, first

(* Every report agrees with itself and with what was measured: although it *)
(* shows five degraded labels only, its threshold concurrency is the least *)
(* load at which anything really degraded, and that of a window it shows;  *)
(* its headline says the system began degrading, and it has windows, just  *)
(* when something did; and each window reaches the end of the test.        *)
THEOREM ReportsAreConsistent == AnalysisSpec => []ReportsAgree
<1>1. AnalysisInv => ReportsAgree
  BY AnalysisAssumption, ReportOfFindings DEF AnalysisInv, ReportsAgree, Answered
<1> QED
  BY <1>1, AnalysisInvariant, PTL

=============================================================================
