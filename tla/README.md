# srcDiff in TLA+

srcDiff compares two versions of a source file. Each version is parsed by srcML into a tree, written
down as a list of nodes (start tag, end tag, text). The output is one document, the *delta*, that
holds both versions: elements of namespace `diff` (`diff:common`, `diff:delete`, `diff:insert`,
`diff:ws`) say which text belongs to which.

## The system

| component | state it keeps | operations | correct when |
|---|---|---|---|
| shortest edit script, `src/shortest_edit_script` | furthest points per diagonal, back pointers, linked list of edits | greedy search, middle snake, divide and conquer, condensing, pairing of changes | the script turns one sequence into the other, is as short as can be, and is found |
| change_matcher, `src/delta/change_matcher.cpp` | a table of best matchings | fill the table, walk back | every construct of a gap is output once and in order, as many as possible matched |
| edit_corrector, `edit_corrector.cpp` | the edit list, changed while it is iterated | break a pair of similar constructs out of two edits | the list stays an edit list of the two sequences, the loop ends |
| differs (`differ`, `many`, `match`, `nest`, `convert`, `comment`) | positions in two lists of constructs | choose for each edit what is nested, matched, converted or just deleted and inserted | all that is in the two lists is output, in order |
| move_detector | the moves of a file, by number | pair equal deleted and inserted constructs | the pairs are pairs |
| output streams (`output_stream`, `change_stream`, `common_stream`, `whitespace_stream`) | two cursors, the stack of open diff elements, one delayed tag | write a node under an operation, copy blanks | the delta is a document, and holds each version |
| deltor | the above, per file | one delta | files do not influence one another |
| measurers, construct model and rules, `src/model` | cached measures | similarity, may match / nest / convert | verdicts are of the constructs asked about |
| srcML converter, input streams | maps of nodes shared by both inputs | parse an input into a list of nodes | the nodes are the input, word by word |
| input_source_manager and sources, `src/client` | queues of open directories and files | pair the files of two directories, skip, report | every file is compared once, with its namesake if there is one |
| list of files (`uri_stream`, `process_files_from`) | a buffer that is moved and refilled, two positions in it | read a line, take the two names of it | every line is read as it stands, and is one pair of sources |
| reader, `src/library/reader.hpp` | stack of diff elements | read one version back from a delta | it is the version that went in |
| views, `src/view` | open diff elements, lines that are held back, line numbers of both versions | unified and side-by-side display of one delta after another | every change is shown as what it is, in its context, under its line numbers |

The client calls input_source_manager, which takes the sources from the command line or a list of
files and calls deltor for each pair of files; with a view, the delta is then handed to it tag by
tag, before the next pair is taken. deltor fills two node lists, each in a thread that is joined
before the next one starts, and runs a differ on them; a differ asks the shortest edit script for
the edits of two lists of constructs, has the edit_corrector break edits, hands each change to
`many_differ`, which asks the change_matcher what matches what; for matched constructs a differ is
run on their parts. Everything is written through the output streams.

What is hard: index arithmetic over two sequences (off by one, unsigned), lists changed while they
are walked, error codes of failed allocations, state shared by recursive differs (cursors, the stack
of diff elements), two walks that are merged, and loops that end only if their input is of the
expected form. `PROJECT.json` lists these places one by one, with the properties that watch them.

## Modules

| module | models |
|---|---|
| `EditScripts` | what an edit script and an edit distance are; `struct edit_t` |
| `EditScriptService` | what a caller of the search is promised: a shortest script, or an error |
| `ShortestEditScript` | `shortest_edit_script_inner` and `make_edit_script` (quadratic space) |
| `SharedTheorems` | lemmas the proofs share: edit distances, what `FlattenSeq` gives, recursive functions |
| `ShortestEditScriptProofs` | the proofs about the search |
| `EditLists` | the C++ edit (`ses::edit`) and what an edit list is |
| `HybridEditScript` | `compute`, `shortest_edit_script_hybrid`, the linear space search, merging, `is_change` |
| `HybridEditScriptProofs` | the proofs about divide and conquer |
| `ChangeMatcher` | `match_differences`, `create_linked_list` |
| `ChangeMatcherProofs` | the proofs about the list of changes and what is matched |
| `EditCorrections` | what one round of `correct` makes of a list: `split_change`, `correct_common_inner` |
| `EditCorrector` | `correct`, which walks the list it changes |
| `EditCorrectorProofs` | the proofs about the corrected list |
| `Nodes` | a version as a list of nodes, constructs, their children and terms, equality |
| `OutputStream` | `output_stream`: `output_node`, the stacks of open tags, ends that are held back |
| `OutputStreamCalls` | any caller of `OutputStream`, and its properties |
| `Reader` | `reader`: one version read back |
| `WhitespaceStream`, `CommonStream`, `ChangeStream` | the streams of the same names, `move_detector::output`, the output functions of `differ` |
| `Rules` | which names may nest or be converted |
| `Differ` | `deltor`, `differ`, `comment_differ`, `many_differ`, `match_differ`, `convert_differ`, `nest_differ`, `move_detector::mark_moves` |
| `DeltaService` | what a caller of `deltor` is promised: a document that reads back as both versions |
| `SourceManager` | `input_source_manager`, `input_source_local`, the loop of `main` |
| `SourceManagerProofs` | the proofs about the walks of directories |
| `UriStream` | `uri_stream`: the lines of a file, read through a buffer |
| `View` | what both views share: options, the characters that are shown, open diff elements |
| `UnifiedView`, `SideBySideView` | `unified_view`, `side_by_side_view`: their handlers and resets |
| `Views` | `view_t`: the handlers of tags and text, for the view that was chosen |
| `Client` | `main` with all of the client: the list of files, the sources, the deltas and their display |
| `OutputStreamProofs` | the proofs about the output stream |
| `ClientProofs` | the proofs about the list of files, and about the walks within the program |
| `MC...` | the constants of the runs |

`OutputStreamCalls` composes the output stream with two readers; `Differ` composes all from
`EditLists` and `EditCorrections` to `Reader`, and implements `DeltaService`; `Client` composes
`SourceManager`, `UriStream` and the views.

### ShortestEditScript

`last_distance` is a function from diagonals to points, as the array is; the calls of the inner loop
body are the action `Extend`, the start of the outer loop with its first slide is `Begin`. The back
pointers of the code (`edit_pointers`, a pool of records) are the sequence of edits they lead to.
`make_edit_script` is `CondenseRun` (one pass of the loop, which makes one edit of the result) and
`CopyFails` (a failing allocation, after which all is freed). `NoMemory` and `PoolExhausted` are the
two tested allocations of the search. Elements have no content: `compare` is an arbitrary relation
`equal`, chosen in `Init`, so one run covers every pair of sequences of the given lengths, and
relations that no equality has besides.

`InBounds` (only slots that were written are read), `ScriptsLead` (following the back pointers from
a diagonal leads to its point with as many edits as the distance), `FurthestReaching` (nothing
reachable with as many edits lies further down), `ChainIsShortest`, `ScriptTransforms` (the
condensed list is a script), `NeverExhausted` (the loop over distances does not end empty-handed),
`FrontierAdvances` (an entry of the array never moves back), `Termination`, `ImplementsService`.

### HybridEditScript

One action is one recursive call or one step of the two searches that approach each other. The
recursion is a stack of parts still to be solved; a part is solved at once when it is one-sided,
small enough for the quadratic search (whose answer, by the refinement above, is any shortest
script) or has a middle snake next to its ends. The lists of the parts are linked in order, merged
(`merge_sequential_edits`), copied to the C++ list and paired (`is_change`). `MCUnreportedError` is
a run with a finding, below.

### ChangeMatcher

The verdict on two constructs (`Verdicts`: may match and how similar, nests, ...) is an arbitrary
table chosen in `Init`; moves are too. The table is filled cell by cell (`Fill`), then walked back
(`Walk`, `Back`, `Return`).

### EditCorrector

The list starts as any edit list for a shortest script. Which two elements are similar enough to be
broken out is left open, so every choice the thresholds of the code could make is covered. The
iterator is a position: what `++` does at `end()`, which the code can do, is undefined; the model
takes what libstdc++'s circular list does, the first element.

### OutputStream, Reader

The state of `output_stream` is one record, for the differs make many calls in a row; an operator
per method takes it and returns it. `output_node` is `OutputNode`: `Undelay` is its first part (the
end of a diff element that was held back comes out when another operation follows), `OutputEnd` what
it does with an end (dropped when it is not the innermost element, held back when it is of a diff
element), `UpdateDiffStack` the three stacks of sets of tags, one for each input and one for the
output. `Write` is the private `output_node`, which holds back the end of `diff:ws`. `unit` is what
was written.

`OutputStreamCalls` lets a caller make any row of calls the differs could make: nodes go out under
an operation that a diff element has been opened for, starts and ends of diff elements under their
own, and an end may be asked for that is not the innermost one. `StackSound`, `DocumentMirrored`,
`InputsMirrored` relate the stacks to the document and to what a reader of each version has open;
`HeldBackIsInnermost` says that what is held back can still be written; `ReadAsWritten` that
`reader` takes what was written under an operation as of that operation.

### The streams and Differ

The recursion of the differs is a stack of frames (`calls`). An action is what a function does
between two calls of another differ: `Compute` (edit list, correction, moves), `PureEdit`,
`ChangeEdit`, `CommonEdit`, `EndDiffer` for the loop of `differ::output` and
`comment_differ::output`; `MatchChange`, `ConvertChange`, `Unmatch` for the loop of
`many_differ::output`; `Nest`, `FinishUnmatched` for `output_unmatched`; `EndMatch`, `EndConvert`,
`EndNest` for what is behind the inner call. `EndDelta` is the end of `deltor::create`. What is
written by an action is read at once by the two readers, so that at every state what has been read
of a version can be compared with it.

Three things are left open, and every outcome is explored: which of the shortest edit scripts is
taken (`EditListsOf`) and what the corrector breaks out of it (`Corrected`, with the sizes it asks
for); what is similar enough to be matched (`ChangeLists` has every list that the `change_matcher`
could return for constructs of equal or convertible names); and which of the possible nestings
`check_nestable` finds best (`Nestings`).

`Delivers` is the refinement of `DeltaService`. `NeverFatal` says that the walk of common nodes
never meets a difference (the code exits there) nor goes on for ever. `CursorsMeetConstructs`: the
cursors are where `match_differ` assumes them. `MovesAgree`: a move number is of one inserted
construct and of at most one deleted, equal one. `AllClosed`: in the end nothing but the unit is
open.

### SourceManager

A version is a function from paths to files and directories, a source a record with the stack of
entries that are still to come (`input_cache`). `Consume` takes two sources off the list,
`ProcessDirectory` is one turn of the loop of `process_directory`, `ProcessFile` its end with
`process_file`, `NoFile` the early return for two exhausted sources; `ConsumeMissing` is an
exception of `consume`, after which the loop of `main` goes on, and `ConsumeSingle` a delta that is
read back. `reported` is what the program reports, or would: `show_input` is left out.

`Init`, `Next` and `Spec` are the manager alone, in `missed_namesakes`; `Client` uses its actions
within its own.

`EachOnce`: what was reported and what is on the stacks are, at any time, all entries of a version,
each once. `FilesMeet`: the files of two directories that were entered together are compared.
`Termination`: everything is worked off.

### UriStream and Client

The state of a `uri_stream` is a record: the `content` of the buffer, what is `unread` of the file,
the two positions of `readline`. `BeginLine` is `readline` up to its loop, `Look` a turn of the
loop, `EndLine` what is behind it, with what `process_files_from` makes of the line. `Refill` takes
all but one character in front of the line off the buffer and lets libxml read more; that is
modelled from its use (`xmlBufShrink` takes nothing if it has less, `xmlParserInputBufferGrow`
appends one chunk). How long a chunk is, is a parameter: libxml decides it. The file is a row of
characters, a path a row of one-letter names.

`Display` hands the next tag or text of a delta to the view, `Work` is a call of `consume`. What
deltor makes of a pair is left open: any of `Deltas`. A delta that is read back takes the same way.

`ListRead`: the list adds, behind the sources of the command line, one pair for each of its lines as
`getline` would split it (`LineEnds`, `LineText`), wherever a chunk ends.

### The views

A character that a view puts out is a record with its position in all that was displayed, the colour
it is given (the operation) and the character; a header of a hunk has position 0 and two line
numbers. So the properties need not parse what is displayed: each compares `output` with what the
delta says of a position (`Texts`: the operation, the function and the comment a character is in,
the line feeds before it).

A view has its own fields in one record, named as in the code: `context`, `additional_context`,
`wait_change`, `after_edit_count`, ... An operator per method takes the record and returns it.
Characters are handled one at a time, as the loops of `characters` do; a text is split nowhere else
but by `SideBySideView!Tokens`, where the code compares `isspace` with a `bool`: unless `isspace`
returns exactly 1, every blank is a token of its own, which is how it is modelled. Unsigned
arithmetic keeps its width (`UnsignedWidth` bits for `unsigned`, `SizeWidth` for `std::size_t`),
since -1 means "none" in both.

`ChangesInContext`: every change is shown, once, in order; so many lines before it; nothing that is
further from a change than asked for; all of a function that has a change. `HeadersTell`: the
numbers of a header are those of the line behind it, and where lines are left out there is one.
`RowsRead`: the columns of the side-by-side view, read line by line, are the two versions, with
their line numbers, and the mark between them says what is changed in the line.

## Runs

| run | instance | shows |
|---|---|---|
| `shortest_edit_script` | parts of 3 and 4 elements that start at offsets 1 and 2, all 4 096 relations | the search and the condensing are right, failures included |
| `hybrid_edit_script` | 4 and 3 elements, thresholds 0 and 4 | divide and conquer keeps the promise of the direct search |
| `unreported_error` | 2 and 2 elements | finding: a failed allocation looks like "no difference" |
| `change_matcher` | 3 and 2 constructs, all verdicts and moves | changes tile the two lists; fewest constructs unmatched; most similarity where nothing nests |
| `nested_matches` | 3 and 2 constructs | finding: with nesting it is not |
| `edit_corrector` | 4 and 3 constructs, edits of 2 are "long" | lists stay lists, one pair at a time, the loop ends |
| `output_stream` | any calls with one element name, until 5 nodes are written; both versions exist, or one | stacks, document and readers agree |
| `deltas` | rows of up to 3 names and words, and up to 2 with blanks and line feeds; statements, loops, conditions, classes within one another; comments | both versions are read back, moves pair equals, nothing fatal; cursors and tags are where the differs assume them, where constructs are matched, converted, nested |
| `passed_statement` | one pair of versions | finding: a corrected pair of different elements ends the program |
| `dropped_ends` | one pair of versions | finding: a condition with an else loses end tags when it becomes a loop |
| `source_manager` | all pairs of 50 trees with two names on two levels; several comparisons in a row, with missing, null and single sources; lists of files of three lines, in chunks of 1 and 20 characters, alone and behind a pair on the command line; deltas of 5 and 7 lines, of 3 lines or functions, of 3 pieces with blanks and comments, and two in a row, in both views | every entry is taken once, namesakes in directories that were entered together meet; lists are read as they stand; views display what a delta says |
| `missed_namesakes` | one pair of trees | finding: a file beside a subdirectory keeps namesakes below from meeting |

The bounds are sizes only. Sizes 3 by 4 have all the cases of the search: both parities of the sum,
boundary diagonals on both sides, runs of deletions and insertions in both orders, slides between
them. 4 by 3 is the least that the hybrid search splits twice. The threshold 1 000 of the code
stands for "handed to the quadratic search" and is 4 or 0 (always split) in the model. The threshold
of 3 elements that makes an edit long in `edit_corrector` is `LongEdit`, 2 in the run, so that long
edits fit.

Names are only compared with each other, so the first name of a row of the original is an `a`. A row
of three has a move across something common, a replacement between two common constructs, a
corrected pair and blanks on both sides of an edit. The statements have every conversion and nesting
the rules allow among the names used, one or two levels deep.

Two names are enough for a file beside a directory that precedes or follows it, on one or on both
sides, and for a name that is a file here and a directory there; the second level has directories
that are empty, alike, or different.

A chunk of 1 makes the buffer run empty at every place of a line, between `\r` and `\n` too, and one
of 20 holds the file almost or entirely, so that the loop meets the end of the file with and without
more in the buffer. Three lines are the least with one that is neither first nor last. One line of
context and 5 lines have hunks that stay apart, touch and are joined, two lines of context and 7
lines the same for a count that is above 1; 4 and 5 bits are more than any line number needs, and
are different, as `unsigned` and `std::size_t` are. A delta after a delta shows what a reset leaves.

Deadlock is not checked where the computation really ends; `Differ` ends by a step of its own
(`Terminated`), so that a stack of calls on which no action is possible would be found.

Fairness is weak fairness of the next-state relation without its failing alternatives: these are
functions that run on one thread (`main` for `SourceManager`), and a thread that can go on does; no
allocation need fail. `Differ` is checked without fairness: every action shortens a finite list or
goes one construct deeper, and the two ways it could stop early, a difference where common nodes are
expected and a state without a step, are `NeverFatal` and deadlock.

### Findings

- `shortest_edit_script_hybrid` drops the error code of the search it calls, though its comment says
  it returns one: after a failed allocation two different inputs have an empty script
  (`ErrorReported`).
- `change_matcher` says it maximizes similarity. A pair left out for a better nesting still counts
  with its similarity, so that less similar constructs are matched than could be
  (`MaximizesSimilarity` in `nested_matches`).
- `common_stream` says it should never reach the end of its walk with a difference. The corrector
  lets a pair of an expression statement and a return through as "common" because one is convertible
  into the other; `differ` then matches them as if they had one name, and the end tags differ: the
  program exits (`NeverFatal` in `passed_statement`).
- The reader test expects both versions back. A condition with an else that is converted into a loop
  leaves `if` open inside of the loop; the ends of `if` and `if_stmt` are asked for where the loop
  is innermost, and `output_stream` drops them (`ReadsBack` in `dropped_ends`).
- The test of directories expects a file that both have to be compared with its namesake. The walks
  return files before directories, the merge compares whole paths: with `b.cpp` and `a/x.cpp` in the
  original and `a/x.cpp` in the modified directory, `a/x.cpp` is output once as deleted and once as
  inserted (`NamesakesCompared` in `missed_namesakes`).

### Behaviour that the properties allow for

The code does some things that are stranger than what the properties ask for; they are modelled as
they are, and the properties make room for them, so that they do not hide anything else.

- `unified_view::reset_internal` does not clear `context`: the end of a delta that has no line feed
  and was not shown is shown in front of the next delta (`HeadersTell` lets the characters of an
  unterminated end stand behind a header).
- The constructor sets `last_context_line` to -1 as an `unsigned`, `reset_internal` to -1 as a
  `std::size_t`. Line 0 minus one is equal to the second only: a hunk in line 1 has a header in the
  first delta of a run and none in a later one (test/client/suite/unified-view.sh expects one for
  one file).
- `after_edit_count` is not set back by a change that follows a change: fewer lines may follow it
  (`ChangesInContext` asks for a number of lines before a change and only bounds those behind it).
  With 0 lines of context the count never ends a hunk, so that everything behind the first change is
  shown (`CountsLines` excludes 0). With all lines asked for, a delta without a change loses an end
  without a line feed.
- `option_files_from` checks only the first two lines that count; a later one without a separator is
  a pair of twice the same path (`SourcesOf`).

## Proofs

Proved for every value of the constants:

| module | theorems | of the runs' properties |
|---|---|---|
| `ShortestEditScriptProofs` | `TypeCorrect`, `StaysInBounds`, `ScriptsLeadAlways`, `FurthestReachingAlways`, `ShortestChain`, `ScriptCorrect`, `SearchSucceeds`, `NoEditInVain`, `KeepsThePromise` | `TypeOK`, `InBounds`, `ScriptsLead`, `FurthestReaching`, `ChainIsShortest`, `ScriptTransforms`, `NeverExhausted`, `FrontierAdvances`, `ImplementsService` |
| `HybridEditScriptProofs` | `TypeCorrect`, `CrashesNever`, `SnakeAlwaysInTheMiddle`, `PartsAlwaysTile`, `ChangesArePaired`, `KeepsThePromise` | `NeverCrashes`, `SnakeInTheMiddle`, `PartsTile`, `ChangesPaired`, `ImplementsService` |
| `EditCorrectorProofs` | `ScriptKept`, `PairsGivenUpForPairs` | `StaysAScript`, `BreaksOnePair` |
| `ChangeMatcherProofs` | `NothingLost`, `FewestUnmatched`, `MostSimilar` | `ChangesTile`, `MinimizesUnmatched`, `MaximizesUnlessNested` |
| `OutputStreamProofs` | `StacksStaySound`, `HeldBackStaysInnermost`, `DocumentStaysMirrored`, `InputsStayMirrored`, `ReadsAsWritten` | `StackSound`, `HeldBackIsInnermost`, `DocumentMirrored`, `InputsMirrored`, `ReadAsWritten` |
| `SourceManagerProofs` | `EntriesOnce`, `NamesakesMeet` | `EachOnce`, `FilesMeet` |
| `ClientProofs` | `EntriesOnceInTheProgram`, `NamesakesMeetInTheProgram`, `LinesAreWhole`, `ListIsRead` | `EachOnce`, `FilesMeet`, `ListRead` |

### ShortestEditScriptProofs

The assumptions are that the bounds of the parts are naturals in order (`BoundsAssumption`), and that
`EditDistance` is what the recurrence of edit distances says (`EditDistanceAssumption`; TLC
evaluates it).

`FurthestReaching` is not inductive: it speaks of the array after a round, while the array holds
diagonals of two rounds at once. The invariant `IInv` says, for a search at `(distance, diagonal)`:
the diagonals of this round that are passed are furthest for `distance`, the others of the other
parity for `distance - 1`, every one of them has a chain that leads to its point; and every script
with `distance` edits that ends on a passed diagonal ends at or above its point. The step is the
classical argument: a furthest point with `d` edits is a furthest point with `d - 1` on a
neighbouring diagonal, one edit, and a slide. Once the search has arrived, `IInv` holds the chain
that was found, and that what is condensed of it and the rest, put together, still lead from corner
to corner.

Three more invariants stand on `IInv`. `InBounds` needs that the pool has handed out as many edits
as the rounds have diagonals (`Counted`), and that every chunk of the pool has room for a round.
`FrontierAdvances` is an action property: a point on a diagonal is further to the right than the one
on the diagonal before it and not further to the left than the one behind it (`Advancing`), which a
round that is under way keeps on both sides of where it is. The refinement of `EditScriptService`
maps every step to a stutter but the last one, which must return a script of as many edits as the
distance: `Balance` says that the condensed edits and what is left of the chain are together that
many, and that the next run is not one the last condensed edit could have taken in.

### HybridEditScriptProofs

The assumptions are that the sizes and thresholds are naturals (`SizesAssumption`,
`ThresholdsAssumption`), that `EditDistance` follows the recurrence from every corner
(`EditDistanceAssumption`), and that the quadratic search keeps its promise
(`ShortestScriptsAssumption`): what it returns for a part is a script of the part, as long as the
distance. That is what `KeepsThePromise` proves of it. TLC evaluates all four.

`IInv` has a part for each phase of the recursion.

- `PartsOrdered` and `PartsSpend`: the parts lie in order, equal pairs only between them, and what
  was found leads to the first; the length of what was found and the distances of the parts add up
  to the distance of the whole. `PartsTile` follows. A part without an edit is empty and no half,
  which is why two halves always have edits to be linked through (`NeverCrashes`).
- `Searches`: each search is at its furthest point on the diagonals that were passed, with the edits
  of this round, and on those of the other parity with the edits of the last round. In C the two
  searches are two pieces of code; here the second is the first on the grid turned around
  (`Backward`, `BackwardProblem`), so that the greedy argument is made once, for any grid
  (`FurthestNext`). One difference matters: the search that goes back slides before its edit and not
  behind it, so that its array holds points that have not slid yet, and that may lie outside of the
  part.
- In `Searches` as well: the distance of the part is not less than the edits both searches have
  spent. Were it no more than these when a round ends, a shortest script would have a point in its
  middle (`MiddlePoint`) on a diagonal both searches have been to, which is not beyond the point of
  either (`NotMissed`); but on no such diagonal have they met. So the searches do not miss one
  another, nor run out of distances (`DistanceRange` bounds the distance and gives its parity); and
  where they do meet the distance is what they have spent and the snake is in the middle
  (`TheyMeet`, `SnakeFound`).
- `SnakeFound` for a single edit says that the edit that is put next to the snake without a search
  is one that can be made there, which takes the case of the snake that begins at the edge of the
  part.
- `Paired` says of the changes collected that none of them is a deletion that the next one replaces,
  and looks one edit ahead. `merge_sequential_edits` is not needed for it.

The refinement of `EditScriptService` has an invariant of its own on top of `IInv`: `Conserved` says
that what is merged and what is still to be merged, and then what is collected (every change
replayed as its two edits) and what is still to be collected, are together a shortest script; and
that of the edits merged so far no two neighbours could have been one. An edit that takes in a row
of others begins where the first of them does and ends where the last one does (`RunEnds`): C
compares only one offset of two edits, and the other one follows because only equal pairs may lie
between them. A script in which one edit takes the place of several still leads from corner to
corner (`Collapsed`), and a change stands for just the two edits it was made of
(`CollectedPlain`). `Termination` is left to TLC.

### EditCorrectorProofs

That the list leads from corner to corner and what lies between two edits is equal, pair by pair
(`IsEditList`), is kept by whatever `correct` does to it; the inductive invariant `IInv` adds where
the iterator may be. The proof cuts an edit list before the two edits that are broken
(`ListCutBefore`, `ListCutBehind`), shows that what takes their place is an edit list between the
same points, and joins the three (`ListsConcat`). `BreaksOnePair` follows the pairs of constructs
through the same cuts: a pair is common, or an edit passes it. The assumption is that `compute`
returns edit lists (`EditListsAssumption`), which is what `hybrid_edit_script` checks of it; which
pairs are similar enough to break a list for is left open, so that the result holds for every
threshold.

### ChangeMatcherProofs

The table of best matchings is a function of cells. That there is one that follows the recurrence
is proved by the least cell it could fail at. `Walking` is the inductive invariant of the walk back:
the changes listed so far and the two stretches of constructs that are left of the cursors
(`original_pos`, `modified_pos`) are all of the change, each construct once (`Tiling`); and the cell
the walk is at is within what is left to list, or one beyond it at a construct that `olist` or
`nlist` keeps from being listed twice (`Cursors`). That is why nothing is lost or repeated, although an entry of the
table may match a construct again that the walk has passed (`NothingLost`).

For `FewestUnmatched` the table is compared with all ways to match: a cell's `num_unmatched` is the
least any matching of the constructs up to the cell leaves, by the least cell where it is not. The
walk finds such a matching because at every cell there is a set of pairs beyond it which the cell's
own would complete to as many as there can be (`GoesOn`), or as many are listed already and
nothing that is left can be listed (`Settled`). The latter is so once a pair was matched by an entry
that forgot all before it, as lines 195-204 of `change_matcher.cpp` ("may be wrong") let it. `MostSimilar` is the same
argument with pairs of numbers, ordered first by the constructs left unmatched and then by
similarity (`GoesOnWell`, `SettledWell`). It holds where no pair nests (`NoneNests`); that it does
not otherwise is a finding. The assumptions are `VerdictsAssumption` (the type of a verdict) and
`NoneAssumption` (a pair that may not match has no similarity, as `check_match` returns it).

### OutputStreamProofs

The invariant `IInv` says of the three stacks that no set of tags is ever empty, that sets alternate
between operations, and that the outermost one is common and is never taken off; and that an end
that is held back is that of the innermost element. It assumes that names of elements are not those
of the diff tags (`ElementsAssumption`). What makes it inductive is `TagsOf`: a diff tag is only
ever in a set of its own operation, so that taking the end of a diff element off cannot leave two
sets of one operation side by side; and that no end is held back when the stacks change, for
`Undelay` comes first.

`Mirrors` is the second invariant, on top of `IInv`, and has the other three properties. Every call
is at most two nodes that are written and told to the stacks (`Show`), the first one an end that was
held back. A start puts one tag on the stack of the output, an end takes one off (`StartTells`,
`EndTells`), and the same happens to the elements open in the document, but for the end of
`diff:ws`, which may still be to come (`MirrorsDocument`). On the stack of a version the same tags
come and go that the version has of those of the output (`MirrorsInput`): an end of operation `op`
takes off what it should because the innermost tags of both stacks are then the same. The reader's
stack has one entry for each open diff element, the output's one for each tag; `MirrorsReader` asks
for the row of stacks the reader had behind each open tag (`ModesOf`), each of which ends in the
operation the tag was opened under. That an element is only started once its operation is open
(`Ready`, the guard of the callers) is needed here and nowhere else.

### SourceManagerProofs

For any list of sources and any trees, every entry of a version is taken once or is still to come
(`EntriesOnce`). The assumption, `InputsAssumption`, is that a list is what the program makes
(`IsList`): pairs, and single sources in between, each with a number of its own; a version is a file
or a finite tree in which everything but the base is in a directory (`IsTree`), and only the output
file, which is not the base, is passed over. Pairs in which one source is a delta are not such lists.

What a directory is replaced by is a row of its entries in an order (`Expanded`). That there is one
takes that a finite set with a strict order can be written as a row (`RowOfOrder`, by the number of
elements before each), that such a row has all of the set (`RowIsAll`, by the pigeonhole principle),
and that entries of one directory are ordered by their last names (`Siblings`).

`IInv` says for each source that was given and is not single (`AllInStep`): what was reported of it
are entries, each once; the sources that are held for it, on the list or in `current`, have stacks
on which no path is in front of another one (`IsStack`); and an entry was reported if and only if no
path on a stack is in front of it (`InStep`). A step takes the top off a stack and puts on what is
directly below it (`StackStep`), and what is below a directory is what is directly below it or below
that (`FollowEntry`). The rest of `IInv` is bookkeeping that this needs: the list is always one of pairs
and single sources (`SourcesSound`), the two sources in `current` are of one pair, one of each side,
and of none on the list (`IsCurrentPair`) - or a report would be taken for one of another pair - and
a pair with a missing source never gets into `current`.

A file that two directories share is compared with its namesake if the two directories were entered
together (`NamesakesMeet`). The invariant behind it is `Meets`: such a file was reported together
with its namesake, or it is pending (`IsPending`), that is, it was reported on neither side, and on
every stack of the pair there are only files above it that precede it (`OnTop`). When the
directories are entered, the order of `Expanded`, directories before files and each of them
descending, puts it there (`PushedOnTop`). From then on both sources are at files, so the merge
goes into no directory before it has passed it, and takes the smaller of the two tops: something
that precedes the file, or the file from both sides. That it is not reported a second time, alone, is
what `IInv` says. `NamesakesCompared`, of which the run `missed_namesakes` finds a violation, is about
the files for which this premise fails.

### ClientProofs

The walks keep what they promise in the program, where a list of files adds sources
(`EntriesOnceInTheProgram`). While it is read nothing is consumed (`OnlyGiven`), so that each line
leaves a list of sources as it could have been given (`Starts`): the pair of the line has the next
number, and its sources are as they are made (`NamedSource`, from `ExistingAssumption`: what is at a
path is a tree). Behind that, a step of the program is one of the manager or leaves the walks alone. That the files of
directories meet holds in the program for the same reasons (`NamesakesMeetInTheProgram`).

For every list of files and every size of chunk, what `readline` returns is a whole line of the
file, up to a carriage return at its end (`LinesAreWhole`). It assumes that a file is a row of
strings and a chunk not empty (`CommandsAssumption`). The invariant is `Reads`: the buffer and what
is unread are the rest of the file (`Follows`); in the loop, no line feed was passed, and unless the
end of the file is known there is more in the buffer (`Looks`); between two lines, the next one
begins behind a line feed (`Waits`). All of it is said in places of the file (`Begin`, `End`,
`Limit`), which a refill does not change (`RefillFollows`), though it changes every position in the
buffer. That the line begins behind a line feed is needed for the carriage return: `readline` looks
at the character in front of the line feed even when the line is empty, which then is the last one
of the line before.

That all lines are read, each once and in their order, is `ListIsRead`. Its invariant `ListsSoFar`
says what `given` is while the list is read: the sources of the command line, and behind them the
pairs of the lines that end in front of `Begin(stream)`, or of all lines when there is nothing more
to read. A step of `readline` within a line leaves both alone; the end of a line adds to
both what belongs to the line. That the line is the next one of the file is `LineIsNext`, for which
`Waits` and `Looks` also say where the buffer ends when the end of the file is known: a carriage return
that is the last character of the file is part of its line, and one before a line feed that
is the last character is not. The rest is about rows: the lines in order, with one that is
behind them all, are their row with that one at its end (`InOrderMore`), and `FlattenSeq` of a row
with one part more has that part at its end (`FlattenMore`). The numbers of the pairs go on from
the sources of the command line, so `ListsSoFar` carries how many sources there are.

### Only model-checked

- `Client`: the properties of the views (`ChangesInContext`, `HeadersTell`, `RowsRead`), which count and
  concatenate over all that is displayed.
- `Differ` and the streams it is built on: a row of calls is a recursion, which the prover's SMT
  backend does not accept in a module.
- Every liveness property: fairness and `ENABLED` are outside of what `tlapm` proves here.

## Not modelled, and the plan

Allocations whose result the code does not test are taken to succeed. Attributes and namespaces, the
merging of names, and the temporary nodes of `elseif` are left out of the nodes; nesting of
expressions and names is left out of `Rules`. `output_statement`, `output_suffix` and
`extend_end_to_new_line` are never called. Of the views, themes, keywords, style sheets, escaping
and the width of columns are left out. `character_diff` and saved names wait for elements of a name
no delta has, and the mode for functions alone cannot be chosen: they are dead code. Of the command
line only the options for the views and the list of files are modelled; the Windows shim is left
out.

A file that cannot be opened or parsed ends the program from the thread that reads it
(`input_stream.tcc`); an exception in a comparison leaves `deltor` without its reset, though `main`
goes on. What a file contains is not part of `SourceManager`, and `Differ` is one call of `deltor`,
so neither is modelled. Pairs in which one source is a delta and the other is not are no input of
`SourceManager`: such a pair is put back without end, and nothing says what it should do.

Next, in this order:

1. Several files in a row through one `deltor`, with an exception in one of them.
2. `Rules` of expressions, temporary nodes of `elseif`, versioned attributes; the splitting of text
   in the converter.
3. Theorems: the properties of the views, for which their output must be stated without sums.
