---------------------------- MODULE GrooveGenerate ----------------------------
(***************************************************************************)
(* What a tool call makes of an opened seed bundle: deterministic.py       *)
(* derives an artifact from its parents, fallback.py asks a provider for   *)
(* one first and checks what it answers, artifacts.py keeps the result in  *)
(* a directory that all servers share, and mapping.py looks whether an     *)
(* artifact may be applied.                                                *)
(*                                                                         *)
(* An artifact that was derived is a record with its parents, its rights   *)
(* and, for the properties, the source artifacts it descends from; its id  *)
(* is a digest of it, here the record.  Its file is written at a temporary *)
(* name that is the same for all who write this artifact.  An inode is     *)
(* <<artifact, the call that created it>>.                                 *)
(***************************************************************************)
EXTENDS GrooveSeed

CONSTANTS
  Provided,     \* whether the runtime has a provider
  MaxParents,   \* a generation has at most eight parents
  Together,     \* whether calls generate while others build, page and rewrite
  Early         \* the callers that open a bundle before that

ASSUME GenerateAssumption ==
  /\ Provided \in BOOLEAN /\ Together \in BOOLEAN /\ Early \subseteq Callers
  /\ MaxParents \in Nat \ {0}

VARIABLES
  asked,       \* of each caller: the parents for which it asks the provider
  made,        \* of each: the artifact it has made
  handle,      \* of each: the inode it has open for writing
  tmp, path,   \* the inodes at the temporary names, and those at their own names
  whole,       \* the inodes that hold their whole text
  answered,    \* the artifacts that were answered as stored
  torn         \* those a writer was killed on while it had their file open
work    == <<asked, made, handle>>
store   == <<tmp, path, whole>>
history == <<answered, torn>>
vars    == <<seedVars, work, store, history>>

(*********************** artifacts and their rights *************************)
\* Levels: 0 blocked, 1 derived_only, 2 full.
Derived(parents, by, level, apply, roots) ==
  [parents |-> parents, by |-> by, level |-> level, apply |-> apply, roots |-> roots]

HasFile(id) == \E i \in path : i[1] = id
Readable(id) == \E i \in path : i[1] = id /\ i \in whole
InIndex(c, id) == \E k \in DOMAIN Index(c) : Id(Index(c)[k]) = id

\* SeedBackedArtifactStore.get prefers what was derived.
Available(c, id) == IF HasFile(id) THEN Readable(id) ELSE InIndex(c, id)

\* The rights and the descent that are read with a parent.
Rights(id) == IF HasFile(id) THEN [level |-> id.level, roots |-> id.roots]
              ELSE [level |-> id.level, roots |-> {id}]
Roots(parents) == UNION {Rights(parents[k]).roots : k \in DOMAIN parents}
NotBlocked(parents) == \A k \in DOMAIN parents : Rights(parents[k]).level # 0
Meet(parents) == IF \A k \in DOMAIN parents : Rights(parents[k]).level = 2 THEN 2 ELSE 1

\* map_artifact: whether an artifact may be applied to a clip.
MayApply(a) == a.level = 2 /\ a.apply

(*********************** requests *******************************************)
\* The ids a client can name: of any build, and of what was derived.
SourceIds == UNION {ToSet(Ids(rows[b])) : b \in Builders}
KnownIds == SourceIds \cup {i[1] : i \in path}

\* The source is named, or it is the first item of a search.
Sources(c) == KnownIds \cup (IF Index(c) = <<>> THEN {} ELSE {Id(Ranked(Index(c))[1])})
Parents(c) ==
  {<<s>> \o refs : s \in Sources(c), refs \in UNION {[1..n -> KnownIds] : n \in 0..(MaxParents - 1)}}

\* An open bundle does not change, whoever builds another one or pages through it.
Quiet ==
  \/ Together
  \/ /\ edits = 0 /\ cursor = [c \in Callers |-> None] /\ pages = [c \in Callers |-> <<>>]
     /\ \E b \in Builders : building = [x \in Builders |-> IF x = b THEN "done" ELSE "idle"]

Stops(c) ==
  /\ Refuse(c) /\ asked' = [asked EXCEPT ![c] = None] /\ made' = [made EXCEPT ![c] = None]
  /\ handle' = [handle EXCEPT ![c] = None]

(*********************** generation *****************************************)
\* What the parents hold does not parse, or has another resolution or meter, or gives too
\* many events; or one of the ids is unknown, or given twice.
Refused(c) == Stops(c)

Makes(c, a) ==
  /\ made' = [made EXCEPT ![c] = a] /\ asked' = [asked EXCEPT ![c] = None]
  /\ Steps(c, "look") /\ UNCHANGED <<opened, handle>>

\* deterministic_generate.
Derives(c, parents) ==
  \/ Refused(c)
  \/ /\ IsInjective(parents) /\ \A k \in DOMAIN parents : Available(c, parents[k])
     /\ NotBlocked(parents)
     /\ Makes(c, Derived(parents, "deterministic", Meet(parents), Meet(parents) = 2, Roots(parents)))

\* groove_generate, asked for a deterministic artifact, or without a provider to ask.
Generate(c) ==
  /\ On(c, "open") /\ Quiet
  /\ \E parents \in Parents(c) : Derives(c, parents)
  /\ UNCHANGED <<content, build, disk, search, calls, edits, store, history>>

\* generate_with_provider: the card of the first parent goes with the request.
AskProvider(c) ==
  /\ On(c, "open") /\ Quiet /\ Provided
  /\ \E parents \in Parents(c) :
       IF IsInjective(parents) /\ Available(c, parents[1])
         THEN asked' = [asked EXCEPT ![c] = parents] /\ Steps(c, "asked")
              /\ UNCHANGED <<opened, made, handle>>
         ELSE Stops(c)
  /\ UNCHANGED <<content, build, disk, search, calls, edits, store, history>>

\* The process of the provider cannot be started or limited, breaks the protocol, answers
\* late, reports a failure or makes what is refused: the artifact is derived without it.
ProviderFails(c) ==
  /\ On(c, "asked") /\ Derives(c, asked[c])
  /\ UNCHANGED <<content, build, disk, search, calls, edits, store, history>>

\* Mutant: the rights of the source only.
AcceptsOfFirst(c, parents, level) ==
  /\ \A k \in DOMAIN parents : Available(c, parents[k])
  /\ NotBlocked(<<parents[1]>>) /\ level = Meet(<<parents[1]>>)
\* validate_provider_candidate, with the rights of all parents as they are read now.
Accepts(c, parents, level) ==
  /\ \A k \in DOMAIN parents : Available(c, parents[k])
  /\ NotBlocked(parents) /\ level = Meet(parents)

\* A provider states the level and the capabilities itself: at worst, that the artifact may
\* be applied.
ProviderOffers(c) ==
  /\ On(c, "asked")
  /\ \E level \in 0..2 :
       /\ Accepts(c, asked[c], level)
       /\ Makes(c, Derived(asked[c], "provider", level, TRUE, Roots(asked[c])))
  /\ UNCHANGED <<content, build, disk, search, calls, edits, store, history>>

(*********************** FileArtifactStore.put ******************************)
\* Mutant: a temporary file is taken for the artifact.
IsThereOrComes(a) == \E i \in path \cup tmp : i[1] = a
\* What is stored already is not written again.
IsThere(a) == HasFile(a)

PutLooks(c) ==
  /\ On(c, "look")
  /\ IF IsThere(made[c])
       THEN Stops(c) /\ answered' = answered \cup {made[c]}
       ELSE Steps(c, "openfile") /\ UNCHANGED <<opened, work, answered>>
  /\ UNCHANGED <<content, build, disk, search, calls, edits, store, torn>>

\* Opening for writing empties what another writer has put at the temporary name.
OpensTmp(c) ==
  /\ On(c, "openfile") /\ Steps(c, "fill")
  /\ \E i \in {j \in tmp : j[1] = made[c]} \cup {<<made[c], c>>} :
       /\ i \in tmp \/ \A j \in tmp : j[1] # made[c]
       /\ handle' = [handle EXCEPT ![c] = i]
       /\ tmp' = tmp \cup {i} /\ whole' = whole \ {i}
  /\ UNCHANGED <<content, build, disk, opened, search, calls, edits, asked, made, path, history>>

Fills(c) ==
  /\ On(c, "fill") /\ Steps(c, "replace")
  /\ whole' = whole \cup {handle[c]}
  /\ UNCHANGED <<content, build, disk, opened, search, calls, edits, work, tmp, path, history>>

\* os.replace raises when another writer has moved the file away.
Replaces(c) ==
  /\ On(c, "replace") /\ Stops(c)
  /\ LET here == {i \in tmp : i[1] = made[c]} IN
       IF here = {} THEN UNCHANGED <<tmp, path, answered>>
       ELSE /\ tmp' = tmp \ here
            /\ path' = {i \in path : i[1] # made[c]} \cup here
            /\ answered' = answered \cup {made[c]}
  /\ UNCHANGED <<content, build, disk, search, calls, edits, whole, torn>>

\* A server may be killed during a call.
CallKilled(c) ==
  /\ IsOpen(c) /\ Stops(c)
  /\ torn' = IF On(c, "fill") THEN torn \cup {made[c]} ELSE torn
  /\ UNCHANGED <<content, build, disk, search, calls, edits, store, answered>>

(*********************** specification **************************************)
GenerateStep(c) ==
  \/ Generate(c) \/ AskProvider(c) \/ ProviderFails(c) \/ ProviderOffers(c)
  \/ PutLooks(c) \/ OpensTmp(c) \/ Fills(c) \/ Replaces(c) \/ CallKilled(c)

\* Unless Together, nothing is built or searched after the first artifact was asked for.
Busy ==
  /\ ~Together
  /\ path # {} \/ tmp # {} \/ torn # {} \/ \E c \in Callers : asked[c] # None \/ made[c] # None
SeedStep ==
  \/ \E b \in Builders : ~Busy /\ (BuildStep(b) \/ Killed(b))
  \/ ~Busy /\ UserRewrites
  \/ \E c \in Callers : (c \in Early \/ Quiet) /\ OpenStep(c)
  \/ \E c \in Early : ~Busy /\ Search(c)

Init ==
  /\ SeedInit
  /\ asked = [c \in Callers |-> None] /\ made = [c \in Callers |-> None]
  /\ handle = [c \in Callers |-> None]
  /\ tmp = {} /\ path = {} /\ whole = {} /\ answered = {} /\ torn = {}

Next ==
  \/ SeedStep /\ UNCHANGED <<work, store, history>>
  \/ \E c \in Callers : GenerateStep(c)
Spec == Init /\ [][Next]_vars

(*********************** properties *****************************************)
\* The rights of whatever is stored or on its way to the store are those of all the source
\* artifacts it descends from, through any number of generations and whoever has made it:
\* none of them is blocked, and what may be applied descends from sources with full rights
\* only (deterministic.py _rights_meet; fallback.py validate_provider_candidate).
InStore == {i[1] : i \in path \cup tmp} \cup ({made[c] : c \in Callers} \ {None})
RightsNeverElevated ==
  \A a \in InStore :
    /\ \A r \in a.roots : r.level # 0
    /\ MayApply(a) => \A r \in a.roots : r.level = 2

\* An artifact whose id was answered can be read, whoever else writes it: its file is
\* whole, or another writer of the same bytes has it open, or one was killed just then
\* (artifacts.py FileArtifactStore.put, whose temporary name is shared by all writers).
AnsweredIsStored ==
  \A a \in answered :
    /\ HasFile(a)
    /\ \/ Readable(a)
       \/ a \in torn
       \/ \E c \in Callers : On(c, "fill") /\ made[c] = a /\ handle[c] \in path
===============================================================================
