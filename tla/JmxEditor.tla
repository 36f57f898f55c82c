----------------------------- MODULE JmxEditor -----------------------------
(***************************************************************************)
(* The JMX scripts of a run and their editing by an LLM, in the JMeter MCP *)
(* server: it analyses a script, is given an id for each element, and adds *)
(* to or edits an element by its id.  A numbered backup is made before   *)
(* each change.  All of it is files; a call may be cut short between any   *)
(* two writes, and a file be left written by half.                         *)
(***************************************************************************)
EXTENDS Integers, Sequences, FiniteSets, SequencesExt, FiniteSetsExt

CONSTANTS
    Stems,           \* names of the scripts, as the sequences of their hyphenated parts
    Order,           \* that of the scripts' backups in a sorted listing
    Generated,       \* the script of a run before anyone changes it
    Additions,       \* class and name of the elements that may be added
    Names,           \* names an element may be given
    CreateBackup,    \* create_backup of config.yaml
    MaxBackups,      \* max_backup_count
    MaxElements, MaxChanges, MaxStops,   \* bounds
    Torn, None       \* a file written by half; no script, no change

Top == 0

\* A script is the sequence of its elements: the order matters among those of
\* one parent.  What an element holds besides a name is left out.
Scripts == Seq([el : Nat \ {0}, class : STRING, name : STRING, parent : Nat])

Elements(script) == {node.el : node \in ToSet(script)}

\* Each element is in it once, at the top or below one with a lower number.
IsTree(script) ==
    /\ \A i, j \in DOMAIN script : script[i].el = script[j].el => i = j
    /\ \A i \in DOMAIN script : /\ script[i].parent \in Elements(script) \cup {Top}
                                /\ script[i].parent < script[i].el

ASSUME EditorAssumption ==
    /\ Stems \subseteq Seq(STRING)
    /\ Order \in [Stems -> Nat] /\ IsInjective(Order)
    /\ Generated \in Scripts /\ IsTree(Generated)
    /\ Elements(Generated) \subseteq 1 .. Len(Generated)
    /\ Generated \notin {Torn, None} /\ Torn # None
    /\ Additions \subseteq [class : STRING, name : STRING] /\ Names \subseteq STRING
    /\ CreateBackup \in BOOLEAN /\ MaxBackups \in Nat \ {0}
    /\ {MaxElements, MaxChanges, MaxStops} \subseteq Nat

VARIABLES
    scripts,         \* the scripts of the run
    newest,          \* the one modified last
    backups,         \* of each script, by number
    analysis,        \* what the LLM knows: a script, and as it was
    change,          \* the change in progress
    before,          \* what the latest write replaced (history variable)
    made,            \* backups made of each script (history variable)
    changes, stops

disk == <<scripts, newest, backups>>
editorVars == <<disk, analysis, change, before, made, changes, stops>>

Element(e, class, name, parent) ==
    [el |-> e, class |-> class, name |-> name, parent |-> parent]

Readable(f) == scripts[f] \notin {Torn, None}

EditorInit ==
    /\ scripts = [f \in Stems |-> None] /\ newest = None
    /\ backups = [f \in Stems |-> <<>>]
    /\ analysis = None /\ change = None
    /\ before = [f \in Stems |-> None] /\ made = [f \in Stems |-> 0]
    /\ changes = 0 /\ stops = 0

-----------------------------------------------------------------------------
(* The node index.                                                         *)

Place(script, e) == CHOOSE i \in DOMAIN script : script[i].el = e

Node(script, e) == script[Place(script, e)]

Beside(script, e) == {i \in DOMAIN script : script[i].parent = Node(script, e).parent}

\* Mutated form: the elements before it are counted, of any class.
CountAll(script, e) ==
    Cardinality({i \in Beside(script, e) : i < Place(script, e)})

\* sibling_counts: the elements of its class before it.
Index(script, e) ==
    Cardinality({i \in Beside(script, e) : /\ i < Place(script, e)
                                           /\ script[i].class = Node(script, e).class})

Paths(script) ==
    LET path[e \in Elements(script)] ==
            LET node == Node(script, e)
                here == <<node.class, Index(script, e)>>
            IN  IF node.parent = Top THEN <<here>> ELSE Append(path[node.parent], here)
    IN  path

\* The hash is of the element's class, name and path.
node_id(script, e) ==
    LET node == Node(script, e) IN <<node.class, node.name, Paths(script)[e]>>

\* No two elements have the same path, so an id finds one or none.
find_element_by_node_id(script, id) == {e \in Elements(script) : node_id(script, e) = id}

-----------------------------------------------------------------------------
(* Analysis and changes.                                                   *)

\* A script is generated, or put beside the others by the user.
PutScript(f) ==
    /\ change = None /\ scripts[f] = None
    /\ scripts' = [scripts EXCEPT ![f] = Generated] /\ newest' = f
    /\ UNCHANGED <<backups, analysis, change, before, made, changes, stops>>

analyze_jmx_file(f) ==
    /\ change = None /\ Readable(f)
    /\ analysis' = [of |-> f, script |-> scripts[f]]
    /\ UNCHANGED <<disk, change, before, made, changes, stops>>

Ready == change = None /\ analysis # None /\ changes < MaxChanges

\* discover_jmx_file: the script is named, or the newest is taken.
Discovered == {f \in {analysis.of, newest} : Readable(f)}

\* What an id of the analysis finds: script, element meant, element found.
Targets ==
    UNION {{<<f, e, hit>> :
               hit \in find_element_by_node_id(scripts[f], node_id(analysis.script, e))} :
              f \in Discovered, e \in Elements(analysis.script)}

\* The script is read, changed in memory, and then saved.
BeginChange(f, e, hit, script) ==
    /\ change' = [of |-> f, meant |-> <<analysis.of, e>>, hit |-> <<f, hit>>,
                  script |-> script, step |-> "backup", copy |-> 0]
    /\ changes' = changes + 1
    /\ UNCHANGED <<disk, analysis, before, made, stops>>

\* First or last below the element found.
AddBelow(f, e, hit) ==
    /\ Len(scripts[f]) < MaxElements
    /\ \E new \in {Element(Len(Generated) + changes + 1, a.class, a.name, hit) : a \in Additions} :
          \/ BeginChange(f, e, hit, <<new>> \o scripts[f])
          \/ BeginChange(f, e, hit, Append(scripts[f], new))

\* The operations may rename the element, or not.
EditAt(f, e, hit) ==
    LET i == Place(scripts[f], hit)
    IN  \E name \in Names : BeginChange(f, e, hit, [scripts[f] EXCEPT ![i].name = name])

add_jmx_component  == Ready /\ \E x \in Targets : AddBelow(x[1], x[2], x[3])
edit_jmx_component == Ready /\ \E x \in Targets : EditAt(x[1], x[2], x[3])

-----------------------------------------------------------------------------
(* Backup and save.                                                        *)

\* glob("<stem>-*.jmx") lists the backups of every script whose name the stem
\* begins.
Listing(b, f) == UNION {{g} \X DOMAIN b[g] : g \in {h \in Stems : IsPrefix(f, h)}}

\* The files after x when they are sorted, those of one script together.
LaterThan(x, listing) ==
    {y \in listing : Order[x[1]] < Order[y[1]] \/ (x[1] = y[1] /\ x[2] < y[2])}

\* Mutated form: the backups are counted.
CountAndOne(f) == Cardinality(Listing(backups, f)) + 1

next_num(f) ==
    LET existing == Listing(backups, f)
    IN  IF existing = {} THEN 1
        ELSE (CHOOSE x \in existing : LaterThan(x, existing) = {})[2] + 1

\* The backups with number n of script f holding what is copied.
Holding(f, n, script) ==
    [backups EXCEPT ![f] = [m \in DOMAIN @ \cup {n} |-> IF m = n THEN script ELSE @[m]]]

At(step) == change # None /\ change.step = step
Then(step) == change' = [change EXCEPT !.step = step]

\* copy2 makes the backup, which may stand there already, and then fills it.
create_backup(f) ==
    LET n == next_num(f)
    IN  /\ backups' = Holding(f, n, Torn)
        /\ made' = [made EXCEPT ![f] = @ + 1]
        /\ change' = [change EXCEPT !.step = "copy", !.copy = n]

BackUpScript ==
    /\ At("backup")
    /\ IF CreateBackup THEN create_backup(change.of)
       ELSE Then("open") /\ UNCHANGED <<backups, made>>
    /\ UNCHANGED <<scripts, newest, analysis, before, changes, stops>>

CopyScript ==
    /\ At("copy") /\ Then("prune")
    /\ backups' = Holding(change.of, change.copy, scripts[change.of])
    /\ UNCHANGED <<scripts, newest, analysis, before, made, changes, stops>>

\* all_backups[:-max_count], the oldest, are removed one by one.
Surplus(x) ==
    LET listing == Listing(backups, change.of)
    IN  /\ Cardinality(listing) > MaxBackups
        /\ x \in listing /\ listing \subseteq LaterThan(x, listing) \cup {x}

RemoveOldest ==
    /\ At("prune")
    /\ \E f \in Stems : \E n \in DOMAIN backups[f] :
          /\ Surplus(<<f, n>>)
          /\ backups' = [backups EXCEPT ![f] = [m \in DOMAIN @ \ {n} |-> @[m]]]
    /\ UNCHANGED <<scripts, newest, analysis, change, before, made, changes, stops>>

BackedUp ==
    /\ At("prune") /\ Cardinality(Listing(backups, change.of)) <= MaxBackups
    /\ Then("open")
    /\ UNCHANGED <<disk, analysis, before, made, changes, stops>>

\* open(jmx_path, "w") empties the file.
OpenToWrite ==
    /\ At("open") /\ Then("write")
    /\ before' = [before EXCEPT ![change.of] = scripts[change.of]]
    /\ scripts' = [scripts EXCEPT ![change.of] = Torn] /\ newest' = change.of
    /\ UNCHANGED <<backups, analysis, made, changes, stops>>

Write == /\ At("write") /\ change' = None
         /\ scripts' = [scripts EXCEPT ![change.of] = change.script]
         /\ UNCHANGED <<newest, backups, analysis, before, made, changes, stops>>

\* The server stops, the disk is full, or os.remove raises.
CutShort ==
    /\ change # None /\ stops < MaxStops
    /\ change' = None /\ stops' = stops + 1
    /\ UNCHANGED <<disk, analysis, before, made, changes>>

\* The user copies a whole backup over the script.
Revert(f) ==
    /\ change = None
    /\ \E n \in DOMAIN backups[f] :
          /\ backups[f][n] \notin {scripts[f], Torn}
          /\ scripts' = [scripts EXCEPT ![f] = backups[f][n]]
    /\ newest' \in {newest, f}
    /\ UNCHANGED <<backups, analysis, change, before, made, changes, stops>>

EditorNext ==
    \/ \E f \in Stems : PutScript(f) \/ analyze_jmx_file(f) \/ Revert(f)
    \/ add_jmx_component \/ edit_jmx_component
    \/ BackUpScript \/ CopyScript \/ RemoveOldest \/ BackedUp
    \/ OpenToWrite \/ Write \/ CutShort

EditorSpec == EditorInit /\ [][EditorNext]_editorVars

-----------------------------------------------------------------------------
(* Properties.                                                             *)

EditorTypeOK ==
    /\ \A f \in Stems : Readable(f) => scripts[f] \in Scripts
    /\ newest \in Stems \cup {None}
    /\ \A f \in Stems : \A n \in DOMAIN backups[f] : backups[f][n] \in Scripts \cup {Torn}
    /\ analysis # None => analysis.of \in Stems /\ analysis.script \in Scripts
    /\ changes \in 0 .. MaxChanges /\ stops \in 0 .. MaxStops

\* No other script's backups match its pattern, and in a listing that has other
\* scripts' backups too, its own come last.
Lone(f) ==
    /\ \A g \in Stems : IsPrefix(f, g) => f = g
    /\ \A g, h \in Stems : IsPrefix(g, f) /\ IsPrefix(g, h) => Order[h] <= Order[f]

\* The numbers are the last ones given, each once: from the first number on, or
\* as many as are to be kept, and no more than those when the script is written.
Numbered(f) ==
    /\ \E kept \in 0 .. made[f] : /\ DOMAIN backups[f] = made[f] - kept + 1 .. made[f]
                                  /\ kept = made[f] \/ kept >= MaxBackups
    /\ (At("open") \/ At("write")) /\ change.of = f =>
           Cardinality(DOMAIN backups[f]) <= MaxBackups

\* A script written by half is in its latest backup.
Recoverable(f) ==
    scripts[f] = Torn =>
        DOMAIN backups[f] # {} /\ backups[f][Max(DOMAIN backups[f])] = before[f]

(* The numbered backups of a script are its history, the oldest forgotten  *)
(* first and none that should be kept, and wherever a call is cut short,   *)
(* before the copy is whole, between two removals or in the write, a       *)
(* script that is torn is in its latest backup; so for each script whose   *)
(* backups are listed apart from or after all others', whatever is done to *)
(* the others.                                                             *)
BackupsAreTheHistory ==
    CreateBackup => \A f \in Stems : Lone(f) => Numbered(f) /\ Recoverable(f)

\* The elements of a script from the top down to e.
Above(script, e) ==
    {a \in Elements(script) : \E n \in 1 .. Len(Paths(script)[e]) :
                                 Paths(script)[a] = SubSeq(Paths(script)[e], 1, n)}

(* A change leaves the ids of an analysis valid but for the element it     *)
(* renames and, where it adds an element first, for the elements of that   *)
(* class beside it, with all that is below them.                           *)
ChangesKeepIds ==
    At("backup") =>
        LET old == scripts[change.of]
            new == change.script
            Disturbed(a) == /\ Head(new).el \notin Elements(old)
                            /\ Node(old, a).parent = Head(new).parent
                            /\ Node(old, a).class = Head(new).class
        IN  \A e \in Elements(old) :
               \/ node_id(new, e) = node_id(old, e)
               \/ Node(new, e).name # Node(old, e).name
               \/ \E a \in Above(old, e) : Disturbed(a)

-----------------------------------------------------------------------------
(* What the documents say and the code does not keep.                      *)

(* docs/changelogs/CHANGELOG-2026-03.md:137: the ids are stable, enabling  *)
(* reliable targeting across operations: an id does not find an element    *)
(* of its script other than the one the analysis gave it to.               *)
IdsAreReliable ==
    change # None => \/ Head(change.hit) # Head(change.meant)
                      \/ change.hit = change.meant

(* config.example.yaml:28: the backups kept are counted for each file, and *)
(* the oldest are forgotten first.                                         *)
BackupsAreKeptPerFile ==
    CreateBackup => \A f \in Stems : Numbered(f) /\ Recoverable(f)
=============================================================================
