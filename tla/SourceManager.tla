----------------------------- MODULE SourceManager -----------------------------
(***************************************************************************)
(* input_source_manager and its sources: the files and directories that    *)
(* are to be compared, as a list of sources, two for each comparison.  Two *)
(* directories are walked at the same time, and their walks are merged by  *)
(* the order of the paths.                                                 *)
(*                                                                         *)
(* A version is a function from the paths below its base to what is there. *)
(* A name is a number, ordered like the names; a path is a row of names,   *)
(* empty for the base.  Names are taken to be such that paths compare like *)
(* these rows: none has a character before "/" behind a shorter name.      *)
(***************************************************************************)
EXTENDS Integers, Sequences, FiniteSets

LOCAL INSTANCE SequencesExt

CONSTANTS
  Inputs,      \* lists of sources
  Recognised   \* the names whose extension is that of a language

VARIABLES
  sources,   \* input_sources
  current,   \* the two sources that consume works on
  phase,     \* "consume", or within consume "process"
  given,     \* input_sources in the beginning
  reported   \* what was compared, skipped and shown, for the properties

vars == <<sources, current, phase, given, reported>>

Both == {"original", "modified"}

\* No path (a source that is exhausted); it precedes every path.
Absent == <<0>>

\* A source: "local", "null" or "single"; pair is the number of its comparison.
Source(kind, missing, pair, side, version) ==
  [kind |-> kind, missing |-> missing, pair |-> pair, side |-> side, version |-> version,
   cache |-> IF kind = "local" THEN <<<<>>>> ELSE <<>>]

Nothing == Source("null", FALSE, 0, "original", <<>>)

\* A file, or a finite tree of directories and files, one of which may be the output file.
\* The base is not: main ends before that (input_source_manager.cpp:31-38).
IsTree(version) ==
  /\ IsFiniteSet(DOMAIN version)
  /\ \A p \in DOMAIN version :
       /\ p \in Seq(Nat \ {0})
       /\ version[p] \in {"directory", "file", "output"}
       /\ \A n \in 0 .. Len(p) - 1 : /\ SubSeq(p, 1, n) \in DOMAIN version
                                    /\ version[SubSeq(p, 1, n)] = "directory"

\* A source as it is made.
IsSource(s) ==
  /\ s = Source(s.kind, s.missing, s.pair, s.side, s.version)
  /\ s.kind \in {"local", "null", "single"}
  /\ s.missing \in BOOLEAN
  /\ s.pair \in Nat \ {0}
  /\ s.side \in Both
  /\ IsTree(s.version)
  /\ IF s.kind = "local" /\ ~ s.missing THEN <<>> \in DOMAIN s.version /\ s.version[<<>>] # "output"
     ELSE DOMAIN s.version = {}

\* Pairs, and single sources in between.
IsPaired(list) ==
  /\ list # <<>> => list[1].side = "original"
  /\ \A n \in DOMAIN list :
       LET isLast == n = Len(list)
       IN  IF list[n].kind = "single" \/ list[n].side = "modified"
           THEN /\ list[n].kind = "single" => list[n].side = "original"
                /\ ~ isLast => list[n + 1].side = "original"
           ELSE /\ ~ isLast
                /\ list[n + 1].kind # "single"
                /\ list[n + 1].pair = list[n].pair /\ list[n + 1].side = "modified"
  /\ \A m, n \in DOMAIN list : list[m].pair = list[n].pair /\ list[m].side = list[n].side => m = n

IsList(list) ==
  /\ list \in Seq(ToSet(list))
  /\ \A s \in ToSet(list) : IsSource(s)
  /\ IsPaired(list)

ASSUME InputsAssumption == \A list \in Inputs : IsList(list)

\* The order of paths.
Precedes(p, q) ==
  /\ p # q /\ q # Absent
  /\ \/ p = Absent
     \/ \E n \in 1 .. Len(q) : /\ n <= Len(p) + 1
                               /\ \A k \in 1 .. n - 1 : p[k] = q[k]
                               /\ n <= Len(p) => p[n] < q[n]
-----------------------------------------------------------------------------
(***************************************************************************)
(* input_source_local: what is still to come, as a stack of paths.         *)
(***************************************************************************)
Below(version, directory) ==
  {p \in DOMAIN version : Len(p) = Len(directory) + 1 /\ IsPrefix(directory, p)}

\* Mutant: the entries are sorted the other way around.
IsPushedBackwards(version, p, q) ==
  \/ version[p] = "directory" /\ version[q] = "file"
  \/ version[p] = version[q] /\ Precedes(p, q)

\* The order in which the entries of a directory are pushed: first the directories, then
\* the files, the last ones first.
IsPushedBefore(version, p, q) ==
  \/ version[p] = "directory" /\ version[q] = "file"
  \/ version[p] = version[q] /\ Precedes(q, p)

\* Mutant: only files are pushed.
ExpandedFiles(version, directory) ==
  LET entries == {p \in Below(version, directory) : version[p] = "file"}
  IN  CHOOSE row \in [1 .. Cardinality(entries) -> entries] :
        \A m, n \in DOMAIN row : m < n => IsPushedBefore(version, row[m], row[n])

\* expand_directory, which passes over the output file.
Expanded(version, directory) ==
  LET entries == {p \in Below(version, directory) : version[p] # "output"}
  IN  CHOOSE row \in [1 .. Cardinality(entries) -> entries] :
        \A m, n \in DOMAIN row : m < n => IsPushedBefore(version, row[m], row[n])

\* operator bool, entry and next
HasEntry(s) == s.cache # <<>>

Entry(s) == IF HasEntry(s) THEN Last(s.cache) ELSE Absent

IsDirectory(s) == HasEntry(s) /\ s.version[Entry(s)] = "directory"

NextEntry(s) ==
  IF ~ HasEntry(s) THEN s
  ELSE [s EXCEPT !.cache = IF IsDirectory(s) THEN Front(@) \o Expanded(s.version, Last(@)) ELSE Front(@)]
-----------------------------------------------------------------------------
(***************************************************************************)
(* input_source_manager                                                    *)
(***************************************************************************)
Path(side) == Entry(current[side])

Report(sides, kind) ==
  reported' = Append(reported,
                     [pair |-> current["original"].pair, kind |-> kind,
                      original |-> IF "original" \in sides THEN Path("original") ELSE Absent,
                      modified |-> IF "modified" \in sides THEN Path("modified") ELSE Absent])

Advanced(sides) == [side \in Both |-> IF side \in sides THEN NextEntry(current[side]) ELSE current[side]]

\* The loop of process_directory goes on while one of the two is at a directory, and
\* ends for a file that is not behind the other's entry.
AtDirectory ==
  /\ \E side \in Both : IsDirectory(current[side])
  /\ ~ \E side, other \in Both :
         /\ side # other
         /\ HasEntry(current[side]) /\ ~ IsDirectory(current[side])
         /\ ~ Precedes(Path(other), Path(side))

\* Which directories go on: the one, both if they have one path, or the first.
DirectorySides ==
  LET at == {side \in Both : IsDirectory(current[side])}
  IN  {side \in at : \A other \in at : ~ Precedes(Path(other), Path(side))}

ProcessDirectory ==
  /\ phase = "process" /\ AtDirectory
  /\ current' = Advanced(DirectorySides)
  /\ Report(DirectorySides, "directory")
  /\ UNCHANGED <<sources, phase, given>>

\* The entries that are compared: both if they have one path, or the first.
FileSides ==
  LET at == {side \in Both : HasEntry(current[side])}
  IN  {side \in at : \A other \in at : ~ Precedes(Path(other), Path(side))}

\* The extension tells the language; a file given by its own path is taken to have one.
Language ==
  LET side == IF "original" \in FileSides THEN "original" ELSE "modified"
  IN  IF Path(side) = <<>> THEN ~ IsDirectory(current[side]) ELSE Last(Path(side)) \in Recognised

\* The end of process_directory, and process_file.  The sources go back to the front of
\* the list before the comparison, so that an exception in it concerns nothing else.
ProcessFile ==
  /\ phase = "process" /\ ~ AtDirectory
  /\ \E side \in Both : HasEntry(current[side])
  /\ Report(FileSides, IF Language THEN "compared" ELSE "skipped")
  /\ LET next == Advanced(FileSides)
     IN  sources' = IF \E side \in Both : HasEntry(next[side])
                    THEN <<next["original"], next["modified"]>> \o sources ELSE sources
  /\ phase' = "consume"
  /\ current' = [side \in Both |-> Nothing]
  /\ UNCHANGED given

\* consume, when both sources are exhausted.
NoFile ==
  /\ phase = "process" /\ ~ AtDirectory
  /\ \A side \in Both : ~ HasEntry(current[side])
  /\ phase' = "consume"
  /\ current' = [side \in Both |-> Nothing]
  /\ UNCHANGED <<sources, given, reported>>

\* operator bool of the manager, and the loop of main.
IsReady == phase = "consume" /\ (Len(sources) > 1 \/ (sources # <<>> /\ Last(sources).kind = "single"))

IsSingle == sources[1].kind = "single"

\* A delta that is read back for a view; none, if there is no such file.
ConsumeSingle ==
  /\ IsReady /\ IsSingle
  /\ sources' = Tail(sources)
  /\ reported' = IF sources[1].missing THEN reported
                 ELSE Append(reported, [pair |-> sources[1].pair, kind |-> "view",
                                        original |-> <<>>, modified |-> Absent])
  /\ UNCHANGED <<current, phase, given>>

IsMissing == sources[1].missing \/ sources[2].missing

\* Mutant: the exception is thrown before the sources are taken off the list.
ConsumeMissingKept ==
  /\ IsReady /\ ~ IsSingle /\ IsMissing
  /\ UNCHANGED vars

ConsumeMissing ==
  /\ IsReady /\ ~ IsSingle /\ IsMissing
  /\ sources' = SubSeq(sources, 3, Len(sources))
  /\ UNCHANGED <<current, phase, given, reported>>

Consume ==
  /\ IsReady /\ ~ IsSingle /\ ~ IsMissing
  /\ current' = [original |-> sources[1], modified |-> sources[2]]
  /\ sources' = SubSeq(sources, 3, Len(sources))
  /\ phase' = "process"
  /\ UNCHANGED <<given, reported>>

Init ==
  /\ given \in Inputs
  /\ sources = given
  /\ current = [side \in Both |-> Nothing]
  /\ phase = "consume"
  /\ reported = <<>>

Next == Consume \/ ConsumeSingle \/ ConsumeMissing \/ ProcessDirectory \/ ProcessFile \/ NoFile

Spec == Init /\ [][Next]_vars /\ WF_vars(Next)
-----------------------------------------------------------------------------
\* The entries of a source that were reported, and those that are still to come.
Taken(g) == {n \in DOMAIN reported : reported[n].pair = g.pair /\ reported[n][g.side] # Absent}

Seen(g) == {reported[n][g.side] : n \in Taken(g)}

ToCome(g) ==
  {p \in DOMAIN g.version :
     \E s \in ToSet(sources) \cup {current[side] : side \in Both} :
       /\ s.pair = g.pair /\ s.side = g.side
       /\ \E n \in DOMAIN s.cache : IsPrefix(s.cache[n], p)}

Entries(g) == {p \in DOMAIN g.version : g.version[p] # "output"}

IsLost(g) == \E other \in ToSet(given) : other.pair = g.pair /\ other.missing

\* Nothing in either version is passed over and nothing is taken twice, at any time and
\* however the two walks are merged: what was reported and what is still to come are
\* all of a version, but for the output file.  A pair with a missing source is dropped
\* as a whole, and without consequences for the others.
\* (input_source_local.cpp:92-122; input_source_manager.cpp:160-205, 222-257)
EachOnce ==
  \A g \in ToSet(given) : g.kind # "single" =>
    /\ \A m, n \in Taken(g) : reported[m][g.side] = reported[n][g.side] => m = n
    /\ Seen(g) \cap ToCome(g) \cap Entries(g) = {}
    /\ IF IsLost(g) THEN Seen(g) = {}
       ELSE Seen(g) \cup (ToCome(g) \cap Entries(g)) = Entries(g)

\* The files that both versions have at the same path.
Namesakes(pair) ==
  LET Files(side) == {p \in UNION {DOMAIN g.version : g \in ToSet(given)} :
                        \E g \in ToSet(given) : /\ g.pair = pair /\ g.side = side
                                                /\ p \in DOMAIN g.version /\ g.version[p] = "file"}
  IN  Files("original") \cap Files("modified")

\* Once two directories were entered together, the files they both have directly in
\* them are compared with one another, whatever else is in them.
\* (input_source_manager.cpp:158-176, 219-241)
FilesMeet ==
  \A d, r \in ToSet(reported) :
    (/\ d.pair = r.pair /\ d.kind = "directory" /\ d.original = d.modified
     /\ \E side \in Both : /\ r[side] \in Namesakes(d.pair)
                            /\ r[side] # <<>> /\ Front(r[side]) = d.original) =>
      r.original = r.modified

\* In the end, every file that is in both versions was compared with its namesake.
\* (test/client/suite/directory.sh:25)
NamesakesCompared ==
  (sources = <<>> /\ phase = "consume") =>
    \A r \in ToSet(reported) :
      (\E side \in Both : r[side] \in Namesakes(r.pair)) => r.original = r.modified

\* The program ends: all sources are worked off, missing ones and empty directories
\* too.  (srcdiff.cpp:56-78)
Termination == <>(sources = <<>> /\ phase = "consume")
=============================================================================
