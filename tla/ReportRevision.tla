--------------------------- MODULE ReportRevision ---------------------------
(***************************************************************************)
(* A report and its revision by an LLM, in the report MCP server.  It is   *)
(* generated from the analysis of a run, or compares several runs.         *)
(* Revised sections are saved, each in a new version, and a revised report *)
(* is rendered from a copy of the template in which the enabled sections   *)
(* have other placeholders; all reports of a kind share the copy.  All of  *)
(* it is files.  The server runs one call at a time, and may be stopped,   *)
(* or fail to write, in between.                                           *)
(***************************************************************************)
EXTENDS Integers, Sequences, FiniteSets

CONSTANTS
    Sections,        \* the sections that can be revised
    MaxVersions,     \* bound on the versions of a section
    MaxEditions,     \* bound on the times a run's report is generated
    MaxFiles,        \* bound on the files of each type
    Nothing          \* no template, no call

ASSUME RevisionAssumption ==
    {MaxVersions, MaxFiles} \subseteq Nat /\ MaxEditions \in Nat \ {0}

VARIABLES
    kind,            \* of the report: "single_run" or "comparison"
    enabled,         \* report_config.yaml: the sections enabled for that kind
    template,        \* sections with an AI placeholder in ai_<template>.md, or Nothing
    versions,        \* versions saved of each section
    text, metadata,  \* the .md and .json files of the report, by the suffixes of their names
    edition,         \* times the report was generated
    pc, call,        \* the revision in progress
    untold           \* the revised text is newer than the metadata (history variable)

files == <<text, metadata, edition>>
vars == <<kind, enabled, template, versions, files, pc, call, untold>>

Kinds == {"single_run", "comparison"}

\* performance_report_<run>.md, ..._original.md, ..._revised.md
Base == <<>>
Backup(name) == Append(name, "original")
Revised(name) == Append(name, "revised")

\* What a report shows of a section: the generator's text, an AI placeholder
\* nothing replaced, or a version.
Own == 0
Unrendered == -1
Unrevised == [s \in Sections |-> Own]

Put(name, content, folder) ==
    [n \in DOMAIN folder \cup {name} |-> IF n = name THEN content ELSE folder[n]]

Init == /\ kind \in Kinds /\ enabled = {} /\ template = Nothing
        /\ versions = [s \in Sections |-> 0]
        /\ text = <<>> /\ metadata = <<>> /\ edition = 0
        /\ pc = "idle" /\ call = Nothing /\ untold = FALSE

-----------------------------------------------------------------------------
\* The operator edits report_config.yaml, which every call reads once.
Configure(sections) ==
    /\ pc = "idle" /\ enabled' = sections
    /\ UNCHANGED <<kind, template, versions, files, pc, call, untold>>

\* The conversion to another format may fail before the metadata are written.
Generate(times) ==
    /\ pc = "idle" /\ edition < times
    /\ edition' = edition + 1
    /\ text' = Put(Base, [edition |-> edition', shows |-> Unrevised], text)
    /\ \/ /\ metadata' = Put(Base, [path |-> Base, used |-> Unrevised], metadata)
          /\ untold' = FALSE
       \/ UNCHANGED <<metadata, untold>>
    /\ UNCHANGED <<kind, enabled, template, versions, pc, call>>

generate_performance_test_report == kind = "single_run" /\ Generate(MaxEditions)

\* Each comparison has a folder of its own.
generate_comparison_report == kind = "comparison" /\ Generate(1)

get_next_revision_version(s) == versions[s] + 1

\* Any configured section has versions, enabled or not.
prepare_revision_context(s) ==
    /\ pc = "idle" /\ versions[s] < MaxVersions
    /\ versions' = [versions EXCEPT ![s] = get_next_revision_version(s)]
    /\ UNCHANGED <<kind, enabled, template, files, pc, call, untold>>

-----------------------------------------------------------------------------
(* revise_performance_test_report.                                         *)

\* The file a path function names: that of a run has a fixed name, that of a
\* comparison is the first the directory lists, whatever its suffixes.
Named(folder) == IF kind = "comparison" /\ folder # <<>>
                 THEN DOMAIN folder ELSE {Base}

Bounded(folder) == Cardinality(DOMAIN folder) <= MaxFiles

Exists(folder) == \E n \in Named(folder) : n \in DOMAIN folder

_ensure_ai_template_exists == IF template = Nothing THEN enabled ELSE template

\* The version of a section to show: the requested one (0 for none), if there
\* is such a version, or else the latest; Own without any version.
Use(s, requested) == IF s \notin enabled THEN Own
                     ELSE IF requested \in 1 .. versions[s] THEN requested ELSE versions[s]

_render_template(placeholders, used) ==
    [s \in Sections |-> IF s \notin placeholders THEN Own
                        ELSE IF used[s] = Own THEN Unrendered ELSE used[s]]

\* The checks, the template, the sections.  Without any, or if the report's
\* data cannot be loaded, the call ends in an error.
Begin(requested) ==
    /\ pc = "idle"
    /\ Exists(text) /\ Exists(metadata)
    /\ enabled # {}
    /\ \E s \in Sections : versions[s] > 0
    /\ template' = _ensure_ai_template_exists
    /\ LET used == [s \in Sections |-> Use(s, requested)]
       IN  \/ /\ used # Unrevised
              /\ pc' = "backup_report"
              /\ call' = [path |-> Base, used |-> used,
                          shows |-> _render_template(template', used)]
           \/ UNCHANGED <<pc, call>>
    /\ UNCHANGED <<kind, enabled, versions, files, untold>>

_revise_single_run_report(requested) == kind = "single_run" /\ Begin(requested)

_revise_comparison_report(requested) == kind = "comparison" /\ Begin(requested)

\* Another report of the kind is revised.
BeginOther == /\ pc = "idle" /\ enabled # {}
              /\ template' = _ensure_ai_template_exists
              /\ UNCHANGED <<kind, enabled, versions, files, pc, call, untold>>

\* Mutated form: every revision backs up what it finds.
AlwaysCopy(name, folder) == Put(Backup(name), folder[name], folder)

\* An existing backup is kept.
Keep(name, folder) == IF Backup(name) \in DOMAIN folder THEN folder
                      ELSE Put(Backup(name), folder[name], folder)

BackupReport == /\ pc = "backup_report" /\ pc' = "backup_metadata"
                /\ \E n \in Named(text) : text' = Keep(n, text) /\ Bounded(text')
                /\ UNCHANGED <<kind, enabled, template, versions, metadata, edition, call, untold>>

BackupMetadata == /\ pc = "backup_metadata" /\ pc' = "save"
                  /\ \E n \in Named(metadata) : metadata' = Keep(n, metadata) /\ Bounded(metadata')
                  /\ UNCHANGED <<kind, enabled, template, versions, text, edition, call, untold>>

Save == /\ pc = "save" /\ pc' = "update"
        /\ \E n \in Named(text) :
              /\ text' = Put(Revised(n), [edition |-> edition, shows |-> call.shows], text)
              /\ Bounded(text')
              /\ call' = [call EXCEPT !.path = Revised(n)]
        /\ untold' = TRUE
        /\ UNCHANGED <<kind, enabled, template, versions, metadata, edition>>

\* Mutated form: what an earlier revision recorded is kept.
RecordMore(name) ==
    [path |-> call.path,
     used |-> [s \in Sections |-> IF metadata[name].used[s] = Own
                                  THEN call.used[s] ELSE metadata[name].used[s]]]

Record(name) == [path |-> call.path, used |-> call.used]

\* A failure to write the metadata is not reported.
_update_metadata_with_revision ==
    /\ pc = "update" /\ pc' = "idle" /\ call' = Nothing
    /\ \/ /\ \E n \in Named(metadata) : metadata' = Put(n, Record(n), metadata)
          /\ untold' = FALSE
       \/ UNCHANGED <<metadata, untold>>
    /\ UNCHANGED <<kind, enabled, template, versions, text, edition>>

\* The server stops, or a file cannot be written.
Stop == /\ pc # "idle" /\ pc' = "idle" /\ call' = Nothing
        /\ UNCHANGED <<kind, enabled, template, versions, files, untold>>

Next == \/ \E sections \in SUBSET Sections : Configure(sections)
        \/ generate_performance_test_report \/ generate_comparison_report
        \/ \E s \in Sections : prepare_revision_context(s)
        \/ \E requested \in 0 .. MaxVersions :
              _revise_single_run_report(requested) \/ _revise_comparison_report(requested)
        \/ BeginOther \/ BackupReport \/ BackupMetadata \/ Save
        \/ _update_metadata_with_revision \/ Stop

Spec == Init /\ [][Next]_vars

-----------------------------------------------------------------------------
(* Properties.                                                             *)

TypeOK == /\ kind \in Kinds /\ enabled \subseteq Sections
          /\ template = Nothing \/ template \subseteq Sections
          /\ versions \in [Sections -> 0 .. MaxVersions]
          /\ edition \in 0 .. MaxEditions
          /\ \A n \in DOMAIN text :
                /\ text[n].edition \in 1 .. edition
                /\ text[n].shows \in [Sections -> -1 .. MaxVersions]
          /\ \A n \in DOMAIN metadata : metadata[n].used \in [Sections -> 0 .. MaxVersions]
          /\ untold \in BOOLEAN

Stands(folder, later) ==
    Backup(Base) \in DOMAIN folder =>
        Backup(Base) \in DOMAIN later /\ later[Backup(Base)] = folder[Backup(Base)]

\* The backups of a run's report and of its metadata are what was there before
\* any revision: no revision, however many came before or were cut short, and
\* no later edition of the report changes them.
BackupsStand ==
    [][kind = "single_run" =>
          /\ Stands(text, text') /\ Stands(metadata, metadata')
          /\ Backup(Base) \in DOMAIN text' => text'[Backup(Base)].shows = Unrevised
          /\ Backup(Base) \in DOMAIN metadata' => metadata'[Backup(Base)].used = Unrevised]_vars

\* The file the metadata point to exists; that of a run shows no version of a
\* section but the one the metadata record, unless the call that wrote the
\* file did not get to the metadata.
MetadataTellTheReport ==
    \A n \in DOMAIN metadata :
        LET m == metadata[n]
        IN  /\ m.path \in DOMAIN text
            /\ kind = "single_run" /\ n = Base /\ ~untold =>
                   \A s \in Sections :
                       text[m.path].shows[s] > 0 => m.used[s] = text[m.path].shows[s]

\* What the documents say and the code does not keep.

\* "Backups are not overwritten" (docs/changelogs/CHANGELOG-2026-01.md:217),
\* whatever the kind of the report.
ComparisonBackupsStand == [][Stands(metadata, metadata')]_vars

\* "sections_revised: List of sections that were revised" (the tool's
\* docstring, report_revision_generator.py:114): the report shows each of them.
RevisedSectionsAreShown ==
    pc = "update" => \A s \in Sections : call.used[s] # Own => call.shows[s] = call.used[s]

\* "Each section can be enabled/disabled independently"
\* (report_config.example.yaml:58): no section is lost from a report because
\* it is enabled and has no revision yet, or is disabled again.
NoSectionIsLost == pc = "update" => \A s \in Sections : call.shows[s] # Unrendered
=============================================================================
