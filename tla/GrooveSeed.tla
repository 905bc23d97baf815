------------------------------ MODULE GrooveSeed ------------------------------
(***************************************************************************)
(* The seed bundle of the groove intelligence, of                          *)
(* src/ableton_mcp_server/groove_intelligence/: build.py and index.py      *)
(* compile the authorized MIDI files into manifest.json and index.sqlite,  *)
(* index.py opens the pair again for each call of a tool, and search.py    *)
(* ranks the artifacts and hands them out page by page.                    *)
(*                                                                         *)
(* The processes are builders, which share one bundle directory, and       *)
(* callers, each a tool call of a server that reads it; a user rewrites    *)
(* the MIDI files meanwhile.  A builder may be killed anywhere.  A file of *)
(* the file system is an inode: one that is unlinked stays readable for    *)
(* who has it open.                                                        *)
(***************************************************************************)
EXTENDS Naturals, Sequences, FiniteSets, SequencesExt

CONSTANTS
  Files,         \* the input files, in the order of their relative paths
  Contents,      \* what a MIDI file may hold; 0 is a file that does not parse
  Before,        \* the contents of the files at the start
  Declarations,  \* the rights the inputs of a build may declare, per file
  Scores,        \* what a content scores for the request that is paged through
  Builders, Callers,
  None,          \* nothing
  Limit,         \* limit of the search request
  ListCap,       \* the items of a list that a tool result shows: 32
  MaxEdits,
  MaxCalls       \* of each caller

\* What a build is identified by, and what it compiles; a cursor names both.
Builds == SUBSET ((Contents \cup {0}) \X (0..2))
Artifacts == [content : Contents, level : 0..2, build : Builds, paths : SUBSET Files]
Cursors == [build : Builds, ids : Seq([content : Contents, level : 0..2, build : Builds]),
            digest : Seq(Artifacts), last : Artifacts]

ASSUME SeedAssumption ==
  /\ Files \subseteq Nat /\ IsFiniteSet(Files) /\ Contents \subseteq Nat /\ 0 \notin Contents
  /\ Before \in [Files -> Contents] /\ Declarations \subseteq [Files -> 0..2]
  /\ Scores \in [Contents -> Nat] /\ None \notin Builders \cup Callers \cup Cursors
  /\ Limit \in Nat \ {0} /\ ListCap \in Nat \ {0} /\ MaxEdits \in Nat
  /\ MaxCalls \in [Callers -> Nat]

VARIABLES
  content,   \* of each input file
  building,  \* where each builder is
  declared, token,  \* of each: the rights of its inputs, and the digests it authorized
  rows,      \* of each: the artifacts it has compiled
  conn,      \* of each: the inode its connection writes to
  sum,       \* of each: the checksum it has taken of index.sqlite
  manifest,  \* manifest.json, None while it is absent or half written
  dbAt,      \* the inode of index.sqlite
  file,      \* of each inode: who has made its tables, and whether the rows are committed
  step,      \* where each caller is
  opened,    \* of each: the manifest it has read, and the inode it has opened
  cursor, pages,  \* of each: next_cursor, and the items it got since the first page
  calls, edits
disk   == <<manifest, dbAt, file>>
build  == <<building, declared, token, rows, conn, sum>>
search == <<cursor, pages>>
seedVars == <<content, build, disk, step, opened, search, calls, edits>>

(*********************** builders *******************************************)
\* authorize_input has read every file; one of the files with a digest is kept.
Kept(b) == {f \in Files : \A g \in Files : token[b][g] = token[b][f] => f <= g}
\* build_id: what was kept of the inputs.
BuildId(b) == {<<token[b][f], declared[b][f]>> : f \in Kept(b)}

\* The artifact of what is read from f now; the duplicates give it their facets only.
Compiled(b, f) ==
  [content |-> content[f], level |-> declared[b][f], build |-> BuildId(b),
   paths |-> {g \in Files : token[b][g] = token[b][f]}]
\* artifact_id is a digest of the content and of the provenance.
Id(row) == [content |-> row.content, level |-> row.level, build |-> row.build]
Ids(rs) == [i \in DOMAIN rs |-> Id(rs[i])]

At(b, where) == building[b] = where
Goes(b, where) == building' = [building EXCEPT ![b] = where]

Scan(b) ==
  /\ At(b, "idle")
  /\ \E d \in Declarations : declared' = [declared EXCEPT ![b] = d]
  /\ token' = [token EXCEPT ![b] = content] /\ Goes(b, "compiling")
  /\ UNCHANGED <<content, rows, conn, sum, disk, step, opened, search, calls, edits>>

\* compile_one takes the inputs in the order of their digests, looks at the digest again,
\* and reads the file once more to parse it.
Due(b) == CHOOSE f \in Kept(b) : Cardinality({g \in Kept(b) : token[b][g] < token[b][f]}) = Len(rows[b])

Recheck(b) ==
  /\ At(b, "compiling") /\ Len(rows[b]) < Cardinality(Kept(b))
  /\ Goes(b, IF content[Due(b)] = token[b][Due(b)] THEN "parsing" ELSE "failed")
  /\ UNCHANGED <<content, declared, token, rows, conn, sum, disk, step, opened, search, calls, edits>>

Parse(b) ==
  /\ At(b, "parsing")
  /\ IF content[Due(b)] = 0 \/ declared[b][Due(b)] = 0
       THEN Goes(b, "failed") /\ UNCHANGED rows
       ELSE Goes(b, "compiling") /\ rows' = [rows EXCEPT ![b] = Append(@, Compiled(b, Due(b)))]
  /\ UNCHANGED <<content, declared, token, conn, sum, disk, step, opened, search, calls, edits>>

\* manifest.json is written in place, at first without digest and checksum.
Truncate(b) ==
  /\ \/ At(b, "compiling") /\ Len(rows[b]) = Cardinality(Kept(b)) /\ Goes(b, "manifest")
     \/ At(b, "summed") /\ Goes(b, "remanifest")
  /\ manifest' = None
  /\ UNCHANGED <<content, declared, token, rows, conn, sum, dbAt, file, step, opened, search, calls, edits>>

Manifest(b, digest, checksum) ==
  [build |-> BuildId(b), ids |-> Ids(rows[b]), digest |-> digest, sum |-> checksum]

WriteManifest(b) ==
  /\ \/ At(b, "manifest") /\ manifest' = Manifest(b, None, None) /\ Goes(b, "index")
     \/ At(b, "remanifest") /\ manifest' = Manifest(b, rows[b], sum[b]) /\ Goes(b, "done")
  /\ UNCHANGED <<content, declared, token, rows, conn, sum, dbAt, file, step, opened, search, calls, edits>>

\* write_index refuses two artifacts of one id.
LookForIndex(b) ==
  /\ At(b, "index")
  /\ Goes(b, IF ~IsInjective(Ids(rows[b])) THEN "failed" ELSE IF dbAt # None THEN "unlink" ELSE "connect")
  /\ UNCHANGED <<content, declared, token, rows, conn, sum, disk, step, opened, search, calls, edits>>

\* Another builder may have unlinked it.
Unlink(b) ==
  /\ At(b, "unlink")
  /\ Goes(b, IF dbAt = None THEN "failed" ELSE "connect") /\ dbAt' = None
  /\ UNCHANGED <<content, declared, token, rows, conn, sum, manifest, file, step, opened, search, calls, edits>>

Connect(b) ==
  /\ At(b, "connect") /\ Goes(b, "tables")
  /\ dbAt' = IF dbAt = None THEN b ELSE dbAt
  /\ conn' = [conn EXCEPT ![b] = dbAt']
  /\ UNCHANGED <<content, declared, token, rows, sum, manifest, file, step, opened, search, calls, edits>>

\* The second of two who create the same table fails.
CreateTables(b) ==
  /\ At(b, "tables")
  /\ IF file[conn[b]].by # None THEN Goes(b, "failed") /\ UNCHANGED file
     ELSE Goes(b, "rows") /\ file' = [file EXCEPT ![conn[b]] = [by |-> b, full |-> @.full]]
  /\ UNCHANGED <<content, declared, token, rows, conn, sum, manifest, dbAt, step, opened, search, calls, edits>>

Commit(b) ==
  /\ At(b, "rows") /\ Goes(b, "committed")
  /\ file' = [file EXCEPT ![conn[b]] = [by |-> @.by, full |-> TRUE]]
  /\ UNCHANGED <<content, declared, token, rows, conn, sum, manifest, dbAt, step, opened, search, calls, edits>>

\* The bytes of an inode.
Bytes(i) == LET by == file[i].by IN
  IF by = None THEN <<>> ELSE IF ~file[i].full THEN <<"tables">> ELSE <<BuildId(by), rows[by]>>

\* The checksum is that of the file at the path, whoever has put it there.
TakeSum(b) ==
  /\ At(b, "committed")
  /\ IF dbAt = None THEN Goes(b, "failed") /\ UNCHANGED sum
     ELSE Goes(b, "summed") /\ sum' = [sum EXCEPT ![b] = Bytes(dbAt)]
  /\ UNCHANGED <<content, declared, token, rows, conn, disk, step, opened, search, calls, edits>>

Killed(b) ==
  /\ building[b] \notin {"idle", "done", "failed"} /\ Goes(b, "failed")
  /\ UNCHANGED <<content, declared, token, rows, conn, sum, disk, step, opened, search, calls, edits>>

UserRewrites ==
  /\ edits < MaxEdits /\ edits' = edits + 1
  /\ \E f \in Files, c \in Contents \cup {0} : content' = [content EXCEPT ![f] = c]
  /\ UNCHANGED <<build, disk, step, opened, search, calls>>

BuildStep(b) ==
  \/ Scan(b) \/ Recheck(b) \/ Parse(b) \/ Truncate(b) \/ WriteManifest(b) \/ LookForIndex(b)
  \/ Unlink(b) \/ Connect(b) \/ CreateTables(b) \/ Commit(b) \/ TakeSum(b)

(*********************** opening ********************************************)
On(c, where) == step[c] = where
Steps(c, where) == step' = [step EXCEPT ![c] = where]
Ends(c) == Steps(c, "idle")
Closed == [manifest |-> None, db |-> None]

\* get_groove_runtime opens the bundle anew for each call.
ReadManifest(c) ==
  /\ On(c, "idle") /\ calls[c] < MaxCalls[c] /\ calls' = [calls EXCEPT ![c] = @ + 1]
  /\ IF manifest = None \/ dbAt = None
       THEN Ends(c) /\ UNCHANGED opened
     ELSE IF manifest.sum = None THEN Ends(c) /\ UNCHANGED opened
     ELSE Steps(c, "checksum") /\ opened' = [opened EXCEPT ![c] = [manifest |-> manifest, db |-> None]]
  /\ UNCHANGED <<content, build, disk, search, edits>>

Refuse(c) == Ends(c) /\ opened' = [opened EXCEPT ![c] = Closed]

CompareSum(c) ==
  /\ On(c, "checksum")
  /\ IF dbAt = None THEN Refuse(c)
     ELSE IF Bytes(dbAt) # opened[c].manifest.sum THEN Refuse(c)
     ELSE Steps(c, "connect") /\ UNCHANGED opened
  /\ UNCHANGED <<content, build, disk, search, calls, edits>>

ConnectReadonly(c) ==
  /\ On(c, "connect")
  /\ IF dbAt = None THEN Refuse(c)
     ELSE Steps(c, "validate") /\ opened' = [opened EXCEPT ![c] = [manifest |-> @.manifest, db |-> dbAt]]
  /\ UNCHANGED <<content, build, disk, search, calls, edits>>

\* The rows an inode holds.
RowsIn(i) == rows[file[i].by]

\* Mutant: the checksum is taken for enough.
MatchesAny(c) == file[opened[c].db].by # None
\* What is read of the database is compared with the manifest: the identity of the
\* build, the digest of the rows, and the artifacts with their order.
Matches(c) == LET m == opened[c].manifest  i == opened[c].db IN
  /\ file[i].by # None /\ file[i].full
  /\ BuildId(file[i].by) = m.build /\ RowsIn(i) = m.digest /\ Ids(RowsIn(i)) = m.ids

Validate(c) ==
  /\ On(c, "validate")
  /\ IF Matches(c) THEN Steps(c, "open") /\ UNCHANGED opened ELSE Refuse(c)
  /\ UNCHANGED <<content, build, disk, search, calls, edits>>

(*********************** search *********************************************)
IsOpen(c) == step[c] \notin {"idle", "checksum", "connect", "validate"}
Index(c) == RowsIn(opened[c].db)

Score(row) == Scores[row.content] + Cardinality(row.paths)
\* The order of two artifacts of one build: by score, then by id.
Precedes(r, s) ==
  \/ Score(r) > Score(s)
  \/ Score(r) = Score(s) /\ r.content < s.content
  \/ Score(r) = Score(s) /\ r.content = s.content /\ r.level < s.level
\* The sort is stable.  (SortSeq and SelectSeq say the same of a ranking; these definitions
\* can be reasoned about.)
Ahead(rs, i) ==
  {j \in DOMAIN rs : Precedes(rs[j], rs[i]) \/ (~Precedes(rs[i], rs[j]) /\ j < i)}
Ranked(rs) == [k \in DOMAIN rs |-> rs[CHOOSE i \in DOMAIN rs : Cardinality(Ahead(rs, i)) = k - 1]]

\* Some of the items, in their order.
Those(s, places) ==
  [k \in 1..Cardinality(places) |->
     s[CHOOSE i \in places : Cardinality({j \in places : j < i}) = k - 1]]
\* Mutant: the id does not break a tie.
RemainingByScore(ranking, last) ==
  Those(ranking, {i \in DOMAIN ranking : Score(last) > Score(ranking[i])})
\* What is left of the ranking behind the last item of the page before.
Remaining(ranking, last) == Those(ranking, {i \in DOMAIN ranking : Precedes(last, ranking[i])})

Prefix(s, n) == SubSeq(s, 1, IF Len(s) < n THEN Len(s) ELSE n)

\* A cursor is of one bundle, with the digest of its rows, one request and one limit.
CursorFits(c) ==
  /\ cursor[c].build = opened[c].manifest.build /\ cursor[c].ids = opened[c].manifest.ids
  /\ cursor[c].digest = opened[c].manifest.digest

Search(c) ==
  /\ On(c, "open") /\ Refuse(c)
  /\ IF cursor[c] # None /\ ~CursorFits(c)
       THEN cursor' = [cursor EXCEPT ![c] = None] /\ pages' = [pages EXCEPT ![c] = <<>>]
     ELSE LET ranking == Ranked(Index(c))
              left == IF cursor[c] = None THEN ranking ELSE Remaining(ranking, cursor[c].last)
              page == Prefix(left, Limit)
              before == IF cursor[c] = None THEN <<>> ELSE pages[c] IN
          /\ pages' = [pages EXCEPT ![c] = before \o Prefix(page, ListCap)]
          /\ cursor' = [cursor EXCEPT ![c] =
               IF Len(left) > Len(page) /\ page # <<>>
                 THEN [build |-> opened[c].manifest.build, ids |-> opened[c].manifest.ids,
                       digest |-> opened[c].manifest.digest, last |-> page[Len(page)]]
                 ELSE None]
  /\ UNCHANGED <<content, build, disk, calls, edits>>

OpenStep(c) == ReadManifest(c) \/ CompareSum(c) \/ ConnectReadonly(c) \/ Validate(c)

(*********************** specification **************************************)
SeedInit ==
  /\ content = Before
  /\ building = [b \in Builders |-> "idle"]
  /\ declared = [b \in Builders |-> [f \in Files |-> 0]] /\ token = [b \in Builders |-> Before]
  /\ rows = [b \in Builders |-> <<>>] /\ conn = [b \in Builders |-> None]
  /\ sum = [b \in Builders |-> None]
  /\ manifest = None /\ dbAt = None
  /\ file = [b \in Builders |-> [by |-> None, full |-> FALSE]]
  /\ step = [c \in Callers |-> "idle"] /\ opened = [c \in Callers |-> Closed]
  /\ cursor = [c \in Callers |-> None] /\ pages = [c \in Callers |-> <<>>]
  /\ calls = [c \in Callers |-> 0] /\ edits = 0

(*********************** properties *****************************************)
\* As long as a call has the bundle open, the database it reads holds the artifacts of
\* the manifest it has read, all of them and nothing else, whichever builders run, fail or
\* are killed meanwhile (index.py open_readonly_index: manifest, checksum and connection
\* are three looks at a directory that another process rewrites).
OpenedIsWhole ==
  \A c \in Callers : IsOpen(c) => LET i == opened[c].db IN
    /\ file[i].full /\ Index(c) = opened[c].manifest.digest
    /\ Ids(Index(c)) = opened[c].manifest.ids
    /\ Len(Index(c)) = Cardinality(opened[c].manifest.build)

\* Who pages through a request gets the whole ranking of one bundle in its order, and no
\* item twice: a bundle rebuilt between two pages ends the paging with a refusal
\* (search.py cursor).  For limits above ListCap the items that the result leaves out of
\* its list are behind no cursor, and the property fails.
PagesCoverRanking ==
  \A c \in Callers : pages[c] # <<>> /\ Limit <= ListCap =>
    \E b \in Builders :
      pages[c] = IF cursor[c] = None THEN Ranked(rows[b]) ELSE Prefix(Ranked(rows[b]), Len(pages[c]))
===============================================================================
