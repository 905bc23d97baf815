------------------------------ MODULE GrooveProofs ------------------------------
(***************************************************************************)
(* The rights of what is generated, the store, the bundle and its pages,   *)
(* for any number of files, builders and callers, any parents and any      *)
(* provider.                                                               *)
(*                                                                         *)
(* RightsNeverElevated speaks of what may be applied.  The inductive       *)
(* invariant speaks of the level, which is what the next generation reads, *)
(* and of where a call is: what a call has made is none but while it puts  *)
(* it into the store.                                                      *)
(***************************************************************************)
EXTENDS GrooveGenerate, FiniteSetTheorems, SequenceTheorems, TLAPS

\* The rights of a are no more than those of the sources it descends from.
Clean(a) ==
  /\ \A r \in a.roots : r.level # 0
  /\ a.level = 2 => \A r \in a.roots : r.level = 2

Putting == {"look", "openfile", "fill", "replace"}
CallsInv ==
  /\ DOMAIN step = Callers /\ DOMAIN made = Callers
  /\ \A c \in Callers : step[c] \in Putting => Clean(made[c])
  /\ \A c \in Callers : step[c] \notin Putting => made[c] = None
StoreInv == \A i \in path \cup tmp : Clean(i[1])
RightsInv == CallsInv /\ StoreInv

\* Whatever is derived from parents that are not blocked, with the level they meet at, is
\* clean when those that are in the store are.
LEMMA MeetIsClean ==
  ASSUME StoreInv, NEW parents, NotBlocked(parents), NEW by, NEW apply
  PROVE  Clean(Derived(parents, by, Meet(parents), apply, Roots(parents)))
<1> DEFINE a == Derived(parents, by, Meet(parents), apply, Roots(parents))
<1>1. a.level = Meet(parents) /\ a.roots = Roots(parents)
  BY DEF Derived
<1>2. ASSUME NEW r \in Roots(parents)
      PROVE  r.level # 0 /\ (Meet(parents) = 2 => r.level = 2)
  <2>1. PICK k \in DOMAIN parents : r \in Rights(parents[k]).roots
    BY <1>2 DEF Roots
  <2>2. Rights(parents[k]).level # 0
    BY DEF NotBlocked
  <2>3. Meet(parents) = 2 => Rights(parents[k]).level = 2
    BY DEF Meet
  <2>4. CASE HasFile(parents[k])
    <3>1. Clean(parents[k])
      BY <2>4 DEF HasFile, StoreInv
    <3>2. Rights(parents[k]).level = parents[k].level /\ Rights(parents[k]).roots = parents[k].roots
      BY <2>4 DEF Rights
    <3> QED
      BY <2>1, <2>3, <3>1, <3>2 DEF Clean
  <2>5. CASE ~HasFile(parents[k])
    <3>1. Rights(parents[k]).level = parents[k].level /\ Rights(parents[k]).roots = {parents[k]}
      BY <2>5 DEF Rights
    <3> QED
      BY <2>1, <2>2, <2>3, <3>1
  <2> QED
    BY <2>4, <2>5
<1> QED
  BY <1>1, <1>2 DEF Clean

\* A call that stops has made nothing.
LEMMA StopsKeeps ==
  ASSUME CallsInv, NEW c \in Callers, Stops(c)
  PROVE  CallsInv'
BY DEF CallsInv, Stops, Refuse, Ends, Steps, Putting, Clean

LEMMA MakesKeeps ==
  ASSUME CallsInv, NEW c \in Callers, NEW a, Clean(a), Makes(c, a)
  PROVE  CallsInv'
BY DEF CallsInv, Makes, Steps, Putting, Clean

LEMMA DerivesKeeps ==
  ASSUME RightsInv, NEW c \in Callers, NEW parents, Derives(c, parents)
  PROVE  CallsInv'
<1>1. CASE Stops(c)
  BY <1>1, StopsKeeps DEF RightsInv
<1>2. CASE /\ NotBlocked(parents)
           /\ Makes(c, Derived(parents, "deterministic", Meet(parents), Meet(parents) = 2, Roots(parents)))
  <2>1. Clean(Derived(parents, "deterministic", Meet(parents), Meet(parents) = 2, Roots(parents)))
    BY <1>2, MeetIsClean DEF RightsInv
  <2> QED
    BY <1>2, <2>1, MakesKeeps DEF RightsInv
<1> QED
  BY <1>1, <1>2 DEF Derives, Refused

\* A call that moves on within the store keeps what it has made.
LEMMA PuttingKeeps ==
  ASSUME CallsInv, NEW c \in Callers, NEW where \in Putting, step[c] \in Putting,
         Steps(c, where), UNCHANGED made
  PROVE  CallsInv'
BY DEF CallsInv, Steps, Putting, Clean

LEMMA InitRights == Init => RightsInv
BY DEF Init, SeedInit, RightsInv, CallsInv, StoreInv, Putting

\* Builders, the user, and calls that open the bundle or search.
LEMMA SeedKeeps ==
  ASSUME RightsInv, SeedStep, UNCHANGED <<work, store, history>>
  PROVE  RightsInv'
<1> USE DEF RightsInv, work, store
<1>1. StoreInv'
  BY DEF StoreInv, Clean
<1>2. ASSUME UNCHANGED step PROVE CallsInv'
  BY <1>2 DEF CallsInv, Clean
<1>3. ASSUME NEW c \in Callers, NEW where, where \notin Putting, step[c] \notin Putting, Steps(c, where)
      PROVE  CallsInv'
  BY <1>3 DEF CallsInv, Steps, Clean
<1>4. ASSUME NEW b \in Builders, BuildStep(b) \/ Killed(b) PROVE UNCHANGED step
  BY <1>4 DEF BuildStep, Killed, Scan, Recheck, Parse, Truncate, WriteManifest, LookForIndex, Unlink,
    Connect, CreateTables, Commit, TakeSum
<1>5. ASSUME UserRewrites PROVE UNCHANGED step
  BY <1>5 DEF UserRewrites
<1>6. ASSUME NEW c \in Callers, OpenStep(c) \/ Search(c) PROVE CallsInv'
  <2>1. step[c] \notin Putting
    BY <1>6 DEF OpenStep, Search, ReadManifest, CompareSum, ConnectReadonly, Validate, On, Putting
  <2>2. PICK where \in {"idle", "checksum", "connect", "validate", "open"} : Steps(c, where)
    BY <1>6 DEF OpenStep, Search, ReadManifest, CompareSum, ConnectReadonly, Validate, Refuse, Ends
  <2>3. where \notin Putting
    BY <2>2 DEF Putting
  <2> QED
    BY <1>3, <2>1, <2>2, <2>3
<1> QED
  BY <1>1, <1>2, <1>4, <1>5, <1>6, GenerateAssumption DEF SeedStep, GenerateAssumption

LEMMA GenerateKeeps ==
  ASSUME RightsInv, NEW c \in Callers, GenerateStep(c)
  PROVE  RightsInv'
<1>1. ASSUME UNCHANGED store PROVE StoreInv'
  BY <1>1 DEF RightsInv, StoreInv, store, Clean
<1>2. CASE Generate(c)
  BY <1>1, <1>2, DerivesKeeps DEF Generate, RightsInv
<1>3. CASE AskProvider(c)
  <2>1. ASSUME Stops(c) PROVE CallsInv'
    BY <2>1, StopsKeeps DEF RightsInv
  <2>2. ASSUME Steps(c, "asked"), UNCHANGED made PROVE CallsInv'
    BY <1>3, <2>2 DEF AskProvider, On, RightsInv, CallsInv, Steps, Putting, Clean
  <2> QED
    BY <1>1, <1>3, <2>1, <2>2 DEF AskProvider, RightsInv
<1>4. CASE ProviderFails(c)
  BY <1>1, <1>4, DerivesKeeps DEF ProviderFails, RightsInv
<1>5. CASE ProviderOffers(c)
  <2>1. PICK level \in 0..2 :
          /\ Accepts(c, asked[c], level)
          /\ Makes(c, Derived(asked[c], "provider", level, TRUE, Roots(asked[c])))
    BY <1>5 DEF ProviderOffers
  <2>2. NotBlocked(asked[c]) /\ level = Meet(asked[c])
    BY <2>1 DEF Accepts
  <2>3. Clean(Derived(asked[c], "provider", level, TRUE, Roots(asked[c])))
    BY <2>2, MeetIsClean DEF RightsInv
  <2>4. CallsInv'
    BY <2>1, <2>3, MakesKeeps DEF RightsInv
  <2> QED
    BY <1>1, <1>5, <2>4 DEF ProviderOffers, RightsInv
<1>6. CASE PutLooks(c)
  <2>1. step[c] \in Putting /\ "openfile" \in Putting
    BY <1>6 DEF PutLooks, On, Putting
  <2>2. CallsInv'
    BY <1>6, <2>1, StopsKeeps, PuttingKeeps DEF PutLooks, RightsInv, work
  <2> QED
    BY <1>1, <1>6, <2>2 DEF PutLooks, RightsInv
<1>7. CASE OpensTmp(c)
  <2>1. step[c] \in Putting /\ "fill" \in Putting
    BY <1>7 DEF OpensTmp, On, Putting
  <2>2. CallsInv'
    BY <1>7, <2>1, PuttingKeeps DEF OpensTmp, RightsInv
  <2>3. PICK i : i[1] = made[c] /\ tmp' = tmp \cup {i}
    BY <1>7 DEF OpensTmp
  <2>4. StoreInv'
    BY <1>7, <2>1, <2>3 DEF OpensTmp, RightsInv, CallsInv, StoreInv, Clean
  <2> QED
    BY <2>2, <2>4 DEF RightsInv
<1>8. CASE Fills(c)
  <2>1. step[c] \in Putting /\ "replace" \in Putting
    BY <1>8 DEF Fills, On, Putting
  <2>2. CallsInv'
    BY <1>8, <2>1, PuttingKeeps DEF Fills, RightsInv, work
  <2>3. StoreInv'
    BY <1>8 DEF Fills, RightsInv, StoreInv, Clean
  <2> QED
    BY <2>2, <2>3 DEF RightsInv
<1>9. CASE Replaces(c)
  <2>1. CallsInv'
    BY <1>9, StopsKeeps DEF Replaces, RightsInv
  <2>2. path' \cup tmp' \subseteq path \cup tmp
    BY <1>9 DEF Replaces
  <2>3. StoreInv'
    BY <2>2 DEF RightsInv, StoreInv, Clean
  <2> QED
    BY <2>1, <2>3 DEF RightsInv
<1>10. CASE CallKilled(c)
  BY <1>1, <1>10, StopsKeeps DEF CallKilled, RightsInv
<1> QED
  BY <1>2, <1>3, <1>4, <1>5, <1>6, <1>7, <1>8, <1>9, <1>10 DEF GenerateStep

\* What may be applied descends from sources with full rights only, and nothing descends
\* from a blocked one (deterministic.py _rights_meet; fallback.py validate_provider_candidate).
THEOREM RightsSafety == Spec => []RightsNeverElevated
<1>1. RightsInv /\ [Next]_vars => RightsInv'
  <2> SUFFICES ASSUME RightsInv, [Next]_vars PROVE RightsInv'
    OBVIOUS
  <2>1. CASE SeedStep /\ UNCHANGED <<work, store, history>>
    BY <2>1, SeedKeeps
  <2>2. ASSUME NEW c \in Callers, GenerateStep(c) PROVE RightsInv'
    BY <2>2, GenerateKeeps
  <2>3. CASE UNCHANGED vars
    BY <2>3 DEF vars, seedVars, work, store, RightsInv, CallsInv, StoreInv, Clean
  <2> QED
    BY <2>1, <2>2, <2>3 DEF Next
<1>2. RightsInv => RightsNeverElevated
  <2> SUFFICES ASSUME RightsInv, NEW a \in InStore
      PROVE  (\A r \in a.roots : r.level # 0) /\ (MayApply(a) => \A r \in a.roots : r.level = 2)
    BY DEF RightsNeverElevated
  <2>1. Clean(a)
    BY DEF InStore, RightsInv, CallsInv, StoreInv
  <2> QED
    BY <2>1 DEF Clean, MayApply
<1> QED
  BY InitRights, <1>1, <1>2, PTL DEF Spec

(***************************************************************************)
(* The store: a file that is not whole is open at a writer, or a writer    *)
(* died with it.  That holds of the temporary names as well, which the     *)
(* next move makes the names of artifacts.                                 *)
(***************************************************************************)
Accounted(i) ==
  \/ i \in whole
  \/ i[1] \in torn
  \/ \E c \in Callers : step[c] = "fill" /\ handle[c] = i /\ made[c] = i[1]
FilesInv ==
  /\ DOMAIN step = Callers /\ DOMAIN made = Callers /\ DOMAIN handle = Callers
  /\ \A i \in path \cup tmp : Accounted(i)
  /\ \A c \in Callers : step[c] = "fill" => handle[c][1] = made[c]
  /\ \A a \in answered : HasFile(a)

LEMMA InitFiles == Init => FilesInv
BY DEF Init, SeedInit, FilesInv

\* A step of a call that writes no file, and is not at one.
LEMMA ElsewhereKeeps ==
  ASSUME FilesInv, NEW c \in Callers, step[c] # "fill",
         \E where : where # "fill" /\ Steps(c, where),
         \A d \in Callers \ {c} : made'[d] = made[d] /\ handle'[d] = handle[d],
         DOMAIN made' = Callers, DOMAIN handle' = Callers,
         UNCHANGED <<store, torn>>, \A a \in answered' : HasFile(a)
  PROVE  FilesInv'
<1> USE DEF FilesInv, Steps, store
<1>1. \A i \in path' \cup tmp' : Accounted(i)'
  BY DEF Accounted
<1>2. \A a \in answered' : HasFile(a)'
  BY DEF HasFile
<1>3. \A d \in Callers : step'[d] = "fill" => handle'[d][1] = made'[d]
  OBVIOUS
<1> QED
  BY <1>1, <1>2, <1>3

LEMMA StopsElsewhere ==
  ASSUME FilesInv, NEW c \in Callers, step[c] # "fill", Stops(c), UNCHANGED <<store, torn>>,
         \A a \in answered' : HasFile(a)
  PROVE  FilesInv'
<1>1. \E where : where # "fill" /\ Steps(c, where)
  BY DEF Stops, Refuse, Ends
<1>2. \A d \in Callers \ {c} : made'[d] = made[d] /\ handle'[d] = handle[d]
  BY DEF Stops, FilesInv
<1>3. DOMAIN made' = Callers /\ DOMAIN handle' = Callers
  BY DEF Stops, FilesInv
<1> QED
  BY <1>1, <1>2, <1>3, ElsewhereKeeps

LEMMA MakesElsewhere ==
  ASSUME FilesInv, NEW c \in Callers, step[c] # "fill", NEW a, Makes(c, a), UNCHANGED <<store, history>>
  PROVE  FilesInv'
<1>1. \E where : where # "fill" /\ Steps(c, where)
  BY DEF Makes
<1>2. \A d \in Callers \ {c} : made'[d] = made[d] /\ handle'[d] = handle[d]
  BY DEF Makes, FilesInv
<1>3. DOMAIN made' = Callers /\ DOMAIN handle' = Callers
  BY DEF Makes, FilesInv
<1>4. \A x \in answered' : HasFile(x)
  BY DEF FilesInv, history
<1> QED
  BY <1>1, <1>2, <1>3, <1>4, ElsewhereKeeps DEF history

LEMMA DerivesElsewhere ==
  ASSUME FilesInv, NEW c \in Callers, step[c] # "fill", NEW parents, Derives(c, parents),
         UNCHANGED <<store, history>>
  PROVE  FilesInv'
<1>1. \A x \in answered' : HasFile(x)
  BY DEF FilesInv, history
<1> QED
  BY <1>1, StopsElsewhere, MakesElsewhere DEF Derives, Refused, history

LEMMA SeedKeepsFiles ==
  ASSUME FilesInv, SeedStep, UNCHANGED <<work, store, history>>
  PROVE  FilesInv'
<1>1. ASSUME UNCHANGED step PROVE FilesInv'
  BY <1>1 DEF FilesInv, work, store, history, Accounted, HasFile
<1>2. ASSUME NEW b \in Builders, BuildStep(b) \/ Killed(b) PROVE UNCHANGED step
  BY <1>2 DEF BuildStep, Killed, Scan, Recheck, Parse, Truncate, WriteManifest, LookForIndex, Unlink,
    Connect, CreateTables, Commit, TakeSum
<1>3. ASSUME UserRewrites PROVE UNCHANGED step
  BY <1>3 DEF UserRewrites
<1>4. ASSUME NEW c \in Callers, OpenStep(c) \/ Search(c) PROVE FilesInv'
  <2>1. step[c] # "fill"
    BY <1>4 DEF OpenStep, Search, ReadManifest, CompareSum, ConnectReadonly, Validate, On
  <2>2. PICK where \in {"idle", "checksum", "connect", "validate", "open"} : Steps(c, where)
    BY <1>4 DEF OpenStep, Search, ReadManifest, CompareSum, ConnectReadonly, Validate, Refuse, Ends
  <2>3. \A a \in answered' : HasFile(a)
    BY DEF FilesInv, history
  <2> QED
    BY <2>1, <2>2, <2>3, ElsewhereKeeps DEF work, history, FilesInv
<1> QED
  BY <1>1, <1>2, <1>3, <1>4, GenerateAssumption DEF SeedStep, GenerateAssumption

LEMMA GenerateKeepsFiles ==
  ASSUME FilesInv, NEW c \in Callers, GenerateStep(c)
  PROVE  FilesInv'
<1> DEFINE Old == \A a \in answered : HasFile(a)
<1>0. Old
  BY DEF FilesInv
<1>1. CASE Generate(c)
  BY <1>1, DerivesElsewhere DEF Generate, On
<1>2. CASE AskProvider(c)
  <2>1. step[c] # "fill" /\ UNCHANGED <<store, history>>
    BY <1>2 DEF AskProvider, On
  <2>2. ASSUME Stops(c) PROVE FilesInv'
    BY <1>0, <2>1, <2>2, StopsElsewhere DEF history
  <2>3. ASSUME Steps(c, "asked"), UNCHANGED <<made, handle>> PROVE FilesInv'
    BY <1>0, <2>1, <2>3, ElsewhereKeeps DEF history, FilesInv
  <2> QED
    BY <1>2, <2>2, <2>3 DEF AskProvider
<1>3. CASE ProviderFails(c)
  BY <1>3, DerivesElsewhere DEF ProviderFails, On
<1>4. CASE ProviderOffers(c)
  BY <1>4, MakesElsewhere DEF ProviderOffers, On
<1>5. CASE PutLooks(c)
  <2>1. step[c] # "fill" /\ UNCHANGED <<store, torn>>
    BY <1>5 DEF PutLooks, On
  <2>2. ASSUME IsThere(made[c]), Stops(c), answered' = answered \cup {made[c]} PROVE FilesInv'
    BY <1>0, <2>1, <2>2, StopsElsewhere DEF IsThere
  <2>3. ASSUME Steps(c, "openfile"), UNCHANGED <<work, answered>> PROVE FilesInv'
    BY <1>0, <2>1, <2>3, ElsewhereKeeps DEF work, FilesInv
  <2> QED
    BY <1>5, <2>2, <2>3 DEF PutLooks
<1>6. CASE OpensTmp(c)
  <2>1. PICK i : /\ i[1] = made[c] /\ handle' = [handle EXCEPT ![c] = i]
                 /\ tmp' = tmp \cup {i} /\ whole' = whole \ {i}
    BY <1>6 DEF OpensTmp
  <2>2. /\ step[c] = "openfile" /\ step' = [step EXCEPT ![c] = "fill"]
        /\ UNCHANGED <<made, path, answered, torn>>
    BY <1>6 DEF OpensTmp, On, Steps, history
  <2>3. Accounted(i)'
    BY <2>1, <2>2 DEF Accounted, FilesInv
  <2>4. ASSUME NEW j \in path \cup tmp, j # i PROVE Accounted(j)'
    BY <2>1, <2>2, <2>4 DEF Accounted, FilesInv
  <2>5. \A a \in answered' : HasFile(a)'
    BY <2>2 DEF FilesInv, HasFile
  <2>6. \A d \in Callers : step'[d] = "fill" => handle'[d][1] = made'[d]
    BY <2>1, <2>2 DEF FilesInv
  <2> QED
    BY <2>1, <2>2, <2>3, <2>4, <2>5, <2>6 DEF FilesInv
<1>7. CASE Fills(c)
  <2>1. /\ step[c] = "fill" /\ step' = [step EXCEPT ![c] = "replace"]
        /\ whole' = whole \cup {handle[c]} /\ UNCHANGED <<made, handle, path, tmp, answered, torn>>
    BY <1>7 DEF Fills, On, Steps, history, work
  <2>2. ASSUME NEW j \in path \cup tmp PROVE Accounted(j)'
    BY <2>1, <2>2 DEF Accounted, FilesInv
  <2>3. \A a \in answered' : HasFile(a)'
    BY <2>1 DEF FilesInv, HasFile
  <2> QED
    BY <2>1, <2>2, <2>3 DEF FilesInv
<1>8. CASE Replaces(c)
  <2>1. /\ step[c] = "replace" /\ Stops(c) /\ UNCHANGED <<whole, torn>>
    BY <1>8 DEF Replaces, On
  <2>2. /\ step' = [step EXCEPT ![c] = "idle"]
        /\ made' = [made EXCEPT ![c] = None] /\ handle' = [handle EXCEPT ![c] = None]
    BY <2>1 DEF Stops, Refuse, Ends, Steps
  <2>3. path' \cup tmp' \subseteq path \cup tmp
    BY <1>8 DEF Replaces
  <2>4. ASSUME NEW j \in path' \cup tmp' PROVE Accounted(j)'
    BY <2>1, <2>2, <2>3, <2>4 DEF Accounted, FilesInv
  <2>5. \A a \in answered' : HasFile(a)'
    <3> DEFINE here == {i \in tmp : i[1] = made[c]}
    <3>1. CASE here = {}
      BY <1>8, <3>1 DEF Replaces, FilesInv, HasFile
    <3>2. CASE here # {}
      <4>1. /\ path' = {i \in path : i[1] # made[c]} \cup here
            /\ answered' = answered \cup {made[c]}
        BY <1>8, <3>2 DEF Replaces
      <4>2. \E k \in path' : k[1] = made[c]
        BY <3>2, <4>1
      <4>3. ASSUME NEW a \in answered, a # made[c] PROVE HasFile(a)'
        BY <4>1, <4>3 DEF FilesInv, HasFile
      <4>4. ASSUME NEW a, a = made[c] PROVE HasFile(a)'
        BY <4>2, <4>4 DEF HasFile
      <4> QED
        BY <4>1, <4>3, <4>4
    <3> QED
      BY <3>1, <3>2
  <2>6. \A d \in Callers : step'[d] = "fill" => handle'[d][1] = made'[d]
    BY <2>2 DEF FilesInv
  <2> QED
    BY <2>2, <2>4, <2>5, <2>6 DEF FilesInv
<1>9. CASE CallKilled(c)
  <2>1. Stops(c) /\ UNCHANGED <<store, answered>>
    BY <1>9 DEF CallKilled
  <2>2. /\ step' = [step EXCEPT ![c] = "idle"]
        /\ made' = [made EXCEPT ![c] = None] /\ handle' = [handle EXCEPT ![c] = None]
    BY <2>1 DEF Stops, Refuse, Ends, Steps
  <2>3. torn \subseteq torn' /\ (step[c] = "fill" => made[c] \in torn')
    BY <1>9 DEF CallKilled, On
  <2>4. ASSUME NEW j \in path' \cup tmp' PROVE Accounted(j)'
    BY <2>1, <2>2, <2>3, <2>4 DEF Accounted, FilesInv, store
  <2>5. \A a \in answered' : HasFile(a)'
    BY <2>1 DEF FilesInv, HasFile, store
  <2>6. \A d \in Callers : step'[d] = "fill" => handle'[d][1] = made'[d]
    BY <2>2 DEF FilesInv
  <2> QED
    BY <2>2, <2>4, <2>5, <2>6 DEF FilesInv
<1> QED
  BY <1>1, <1>2, <1>3, <1>4, <1>5, <1>6, <1>7, <1>8, <1>9 DEF GenerateStep

\* An artifact whose id was answered has a file, which is whole, or open at another writer
\* of the same artifact, or was open at one that was killed (artifacts.py FileArtifactStore.put).
THEOREM AnsweredSafety == Spec => []AnsweredIsStored
<1>1. FilesInv /\ [Next]_vars => FilesInv'
  <2> SUFFICES ASSUME FilesInv, [Next]_vars PROVE FilesInv'
    OBVIOUS
  <2>1. CASE SeedStep /\ UNCHANGED <<work, store, history>>
    BY <2>1, SeedKeepsFiles
  <2>2. ASSUME NEW c \in Callers, GenerateStep(c) PROVE FilesInv'
    BY <2>2, GenerateKeepsFiles
  <2>3. CASE UNCHANGED vars
    BY <2>3 DEF vars, seedVars, work, store, history, FilesInv, Accounted, HasFile
  <2> QED
    BY <2>1, <2>2, <2>3 DEF Next
<1>2. FilesInv => AnsweredIsStored
  <2> SUFFICES ASSUME FilesInv, NEW a \in answered
      PROVE  /\ HasFile(a)
             /\ \/ Readable(a)
                \/ a \in torn
                \/ \E c \in Callers : On(c, "fill") /\ made[c] = a /\ handle[c] \in path
    BY DEF AnsweredIsStored
  <2>1. HasFile(a)
    BY DEF FilesInv
  <2>2. PICK i \in path : i[1] = a
    BY <2>1 DEF HasFile
  <2>3. Accounted(i)
    BY DEF FilesInv
  <2> QED
    BY <2>1, <2>2, <2>3 DEF Accounted, Readable, On
<1> QED
  BY InitFiles, <1>1, <1>2, PTL DEF Spec

(***************************************************************************)
(* The bundle: an inode whose tables a builder has made holds that         *)
(* builder's rows for good, since the builder compiles no more, and others *)
(* who find the tables fail.                                               *)
(***************************************************************************)
Compiling == {"idle", "compiling", "parsing"}
Written == {"manifest", "index", "unlink", "connect", "tables", "rows", "committed", "summed",
            "remanifest", "done"}
Complete(b) == Len(rows[b]) = Cardinality(Kept(b))
BundleInv ==
  /\ DOMAIN building = Builders /\ DOMAIN rows = Builders /\ DOMAIN token = Builders
  /\ DOMAIN declared = Builders /\ DOMAIN conn = Builders
  /\ DOMAIN step = Callers /\ DOMAIN opened = Callers
  /\ file \in [Builders -> [by : Builders \cup {None}, full : BOOLEAN]]
  /\ dbAt \in Builders \cup {None}
  /\ \A b \in Builders : building[b] \in {"tables", "rows"} => conn[b] \in Builders
  /\ \A b \in Builders : building[b] \in Written => Complete(b)
  /\ \A i, b \in Builders : file[i].by = b => building[b] \notin Compiling /\ Complete(b)
  /\ \A c \in Callers : step[c] = "validate" \/ IsOpen(c) => opened[c].db \in Builders
  /\ \A c \in Callers : IsOpen(c) => Matches(c)

\* What a builder has kept of its inputs, it counts by their digests and rights.
LEMMA BuildIdCounts ==
  ASSUME NEW b \in Builders
  PROVE  Cardinality(BuildId(b)) = Cardinality(Kept(b))
<1> DEFINE pair == [f \in Kept(b) |-> <<token[b][f], declared[b][f]>>]
<1>1. Kept(b) \subseteq Files /\ IsFiniteSet(Kept(b))
  BY SeedAssumption, FS_Subset DEF Kept
<1>2. pair \in [Kept(b) -> BuildId(b)]
  BY DEF BuildId
<1>3. \A f, g \in Kept(b) : pair[f] = pair[g] => f = g
  <2>1. ASSUME NEW f \in Kept(b), NEW g \in Kept(b), pair[f] = pair[g] PROVE f = g
    <3>1. token[b][f] = token[b][g]
      BY <2>1
    <3>2. f <= g /\ g <= f /\ f \in Nat /\ g \in Nat
      BY <1>1, <3>1, SeedAssumption DEF Kept
    <3> QED
      BY <3>2
  <2> QED
    BY <2>1
<1>4. \A p \in BuildId(b) : \E f \in Kept(b) : pair[f] = p
  BY DEF BuildId
<1>5. pair \in Bijection(Kept(b), BuildId(b))
  BY <1>2, <1>3, <1>4 DEF Bijection, Injection, Surjection, IsInjective
<1>6. ExistsBijection(Kept(b), BuildId(b))
  BY <1>5 DEF ExistsBijection
<1> QED
  BY <1>1, <1>6, FS_Bijection

LEMMA InitBundle == Init => BundleInv
<1> SUFFICES ASSUME Init PROVE BundleInv
  OBVIOUS
<1>1. SeedInit
  BY DEF Init
<1>2. file \in [Builders -> [by : Builders \cup {None}, full : BOOLEAN]]
  BY <1>1 DEF SeedInit
<1>3. \A i \in Builders : file[i].by = None
  BY <1>1 DEF SeedInit
<1>4. /\ \A b \in Builders : building[b] = "idle"
      /\ \A c \in Callers : step[c] = "idle"
  BY <1>1 DEF SeedInit
<1> QED
  BY <1>1, <1>2, <1>3, <1>4, SeedAssumption DEF SeedInit, BundleInv, Written, IsOpen

\* A builder that has compiled its artifacts compiles no others.
LEMMA CompiledStays ==
  ASSUME BundleInv, NEW b \in Builders, BuildStep(b) \/ Killed(b), NEW x \in Builders,
         building[x] \notin Compiling
  PROVE  rows'[x] = rows[x] /\ token'[x] = token[x] /\ declared'[x] = declared[x]
<1>1. x # b \/ building[b] \notin Compiling
  OBVIOUS
<1>2. CASE Scan(b)
  BY <1>1, <1>2 DEF Scan, At, Compiling, BundleInv
<1>3. CASE Parse(b)
  BY <1>1, <1>3 DEF Parse, At, Compiling, BundleInv
<1>4. ASSUME ~Scan(b), ~Parse(b) PROVE UNCHANGED <<rows, token, declared>>
  BY <1>4 DEF BuildStep, Killed, Recheck, Truncate, WriteManifest, LookForIndex, Unlink,
    Connect, CreateTables, Commit, TakeSum
<1> QED
  BY <1>2, <1>3, <1>4

\* Where a builder goes, and that it goes on from the compilation with all its artifacts.
LEMMA BuilderGoes ==
  ASSUME BundleInv, NEW b \in Builders, BuildStep(b) \/ Killed(b)
  PROVE  /\ DOMAIN building' = Builders /\ DOMAIN rows' = Builders /\ DOMAIN token' = Builders
         /\ DOMAIN declared' = Builders
         /\ \A x \in Builders \ {b} : building'[x] = building[x]
         /\ building[b] \notin Compiling => building'[b] \notin Compiling
         /\ building'[b] \in Written =>
              \/ building[b] \in Written
              \/ Complete(b) /\ UNCHANGED <<rows, token, declared>>
<1>1. \E where : Goes(b, where)
  BY DEF BuildStep, Killed, Scan, Recheck, Parse, Truncate, WriteManifest, LookForIndex, Unlink,
    Connect, CreateTables, Commit, TakeSum
<1>2. /\ DOMAIN building' = Builders /\ \A x \in Builders \ {b} : building'[x] = building[x]
  BY <1>1 DEF Goes, BundleInv
<1>3. DOMAIN rows' = Builders /\ DOMAIN token' = Builders /\ DOMAIN declared' = Builders
  BY DEF BuildStep, Killed, Scan, Recheck, Parse, Truncate, WriteManifest, LookForIndex, Unlink,
    Connect, CreateTables, Commit, TakeSum, BundleInv
<1>4. CASE Scan(b) \/ Recheck(b) \/ Parse(b) \/ Killed(b)
  <2>1. building[b] \notin Compiling \/ building'[b] \in Compiling \cup {"failed"}
    BY <1>4 DEF Scan, Recheck, Parse, Killed, Goes, At, Compiling, BundleInv
  <2>2. building'[b] \in Compiling \cup {"failed"}
    BY <1>4 DEF Scan, Recheck, Parse, Killed, Goes, At, Compiling, BundleInv
  <2>3. building[b] \notin Compiling => building'[b] \notin Compiling
    BY <1>4 DEF Scan, Recheck, Parse, Killed, Goes, At, Compiling, BundleInv
  <2> QED
    BY <1>2, <1>3, <2>2, <2>3 DEF Compiling, Written
<1>5. CASE Truncate(b)
  <2>1. building'[b] \in {"manifest", "remanifest"}
    BY <1>5 DEF Truncate, Goes, BundleInv
  <2>2. \/ building[b] \in Written
        \/ Complete(b) /\ UNCHANGED <<rows, token, declared>>
    BY <1>5 DEF Truncate, At, Written, Complete
  <2> QED
    BY <1>2, <1>3, <2>1, <2>2 DEF Compiling
<1>6. CASE WriteManifest(b) \/ LookForIndex(b) \/ Unlink(b) \/ Connect(b) \/ CreateTables(b)
           \/ Commit(b) \/ TakeSum(b)
  <2>1. building[b] \in Written
    BY <1>6 DEF WriteManifest, LookForIndex, Unlink, Connect, CreateTables, Commit, TakeSum, At, Written
  <2>2. building'[b] \in Written \cup {"failed"}
    BY <1>6 DEF WriteManifest, LookForIndex, Unlink, Connect, CreateTables, Commit, TakeSum, Goes,
      Written, BundleInv
  <2> QED
    BY <1>2, <1>3, <2>1, <2>2 DEF Compiling, Written
<1> QED
  BY <1>4, <1>5, <1>6 DEF BuildStep

\* What becomes of the files: tables are made once, by a builder that has compiled, and rows
\* that are committed stay.
LEMMA FilesGo ==
  ASSUME BundleInv, NEW b \in Builders, BuildStep(b) \/ Killed(b)
  PROVE  /\ file' \in [Builders -> [by : Builders \cup {None}, full : BOOLEAN]]
         /\ dbAt' \in Builders \cup {None} /\ DOMAIN conn' = Builders
         /\ \A i \in Builders :
              /\ file[i].by # None => file'[i].by = file[i].by
              /\ file[i].full => file'[i].full
              /\ file[i].by = None /\ file'[i].by # None => file'[i].by = b /\ building[b] = "tables"
         /\ \A x \in Builders : building'[x] \in {"tables", "rows"} => conn'[x] \in Builders
<1> USE DEF BundleInv
<1>1. CASE CreateTables(b)
  <2>1. conn[b] \in Builders /\ UNCHANGED <<conn, dbAt>> /\ At(b, "tables")
    BY <1>1 DEF CreateTables, At
  <2>2. CASE UNCHANGED file
    BY <1>1, <2>1, <2>2 DEF CreateTables, Goes
  <2>3. CASE /\ file[conn[b]].by = None
             /\ file' = [file EXCEPT ![conn[b]] = [by |-> b, full |-> @.full]]
    <3>1. file' \in [Builders -> [by : Builders \cup {None}, full : BOOLEAN]]
      BY <2>1, <2>3
    <3>2. /\ file'[conn[b]].by = b /\ file'[conn[b]].full = file[conn[b]].full
          /\ \A i \in Builders : i # conn[b] => file'[i] = file[i]
      BY <2>1, <2>3
    <3> QED
      BY <1>1, <2>1, <2>3, <3>1, <3>2 DEF CreateTables, Goes, At
  <2> QED
    BY <1>1, <2>2, <2>3 DEF CreateTables
<1>2. CASE Commit(b)
  <2>1. /\ conn[b] \in Builders /\ UNCHANGED <<conn, dbAt>>
        /\ file' = [file EXCEPT ![conn[b]] = [by |-> @.by, full |-> TRUE]]
    BY <1>2 DEF Commit, At
  <2>2. file' \in [Builders -> [by : Builders \cup {None}, full : BOOLEAN]]
    BY <2>1
  <2>3. /\ file'[conn[b]].by = file[conn[b]].by /\ file'[conn[b]].full
        /\ \A i \in Builders : i # conn[b] => file'[i] = file[i]
    BY <2>1
  <2> QED
    BY <1>2, <2>1, <2>2, <2>3 DEF Commit, Goes
<1>3. CASE Connect(b)
  <2>1. /\ UNCHANGED file /\ dbAt' \in Builders /\ conn' = [conn EXCEPT ![b] = dbAt']
        /\ building' = [building EXCEPT ![b] = "tables"]
    BY <1>3 DEF Connect, Goes
  <2>2. \A x \in Builders : building'[x] \in {"tables", "rows"} => conn'[x] \in Builders
    BY <2>1
  <2> QED
    BY <2>1, <2>2
<1>4. CASE Scan(b) \/ Recheck(b) \/ Parse(b) \/ Truncate(b) \/ WriteManifest(b) \/ LookForIndex(b)
           \/ Unlink(b) \/ TakeSum(b) \/ Killed(b)
  <2>1. UNCHANGED <<file, conn>>
    BY <1>4 DEF Scan, Recheck, Parse, Truncate, WriteManifest, LookForIndex, Unlink, TakeSum, Killed, disk
  <2>2. dbAt' \in {dbAt, None}
    BY <1>4 DEF Scan, Recheck, Parse, Truncate, WriteManifest, LookForIndex, Unlink, TakeSum, Killed, disk
  <2>3. \E where : where \notin {"tables", "rows"} /\ Goes(b, where)
    BY <1>4 DEF Scan, Recheck, Parse, Truncate, WriteManifest, LookForIndex, Unlink, TakeSum, Killed
  <2>4. \A x \in Builders : building'[x] \in {"tables", "rows"} => conn'[x] \in Builders
    BY <2>1, <2>3 DEF Goes
  <2> QED
    BY <2>1, <2>2, <2>4
<1> QED
  BY <1>1, <1>2, <1>3, <1>4 DEF BuildStep

LEMMA BuilderKeepsBundle ==
  ASSUME BundleInv, NEW b \in Builders, BuildStep(b) \/ Killed(b)
  PROVE  BundleInv'
<1>1. UNCHANGED <<step, opened>>
  BY DEF BuildStep, Killed, Scan, Recheck, Parse, Truncate, WriteManifest, LookForIndex, Unlink,
    Connect, CreateTables, Commit, TakeSum
<1>2. ASSUME NEW x \in Builders, building[x] \notin Compiling
      PROVE  /\ rows'[x] = rows[x] /\ BuildId(x)' = BuildId(x)
             /\ Complete(x)' = Complete(x) /\ building'[x] \notin Compiling
  <2>1. rows'[x] = rows[x] /\ token'[x] = token[x] /\ declared'[x] = declared[x]
    BY <1>2, CompiledStays
  <2>2. Kept(x)' = Kept(x)
    BY <2>1 DEF Kept
  <2>3. building'[x] \notin Compiling
    BY <1>2, BuilderGoes
  <2> QED
    BY <2>1, <2>2, <2>3 DEF BuildId, Complete
<1>3. ASSUME NEW x \in Builders, building'[x] \in Written PROVE Complete(x)'
  <2>1. CASE building[x] \in Written
    <3>1. building[x] \notin Compiling /\ Complete(x)
      BY <2>1 DEF Written, Compiling, BundleInv
    <3> QED
      BY <1>2, <3>1
  <2>2. CASE building[x] \notin Written
    <3>1. x = b /\ Complete(b) /\ UNCHANGED <<rows, token, declared>>
      BY <1>3, <2>2, BuilderGoes
    <3> QED
      BY <3>1 DEF Complete, Kept
  <2> QED
    BY <2>1, <2>2
<1>4. /\ file \in [Builders -> [by : Builders \cup {None}, full : BOOLEAN]]
      /\ file' \in [Builders -> [by : Builders \cup {None}, full : BOOLEAN]]
  BY FilesGo DEF BundleInv
<1>5. ASSUME NEW i \in Builders, NEW x \in Builders, file'[i].by = x
      PROVE  building'[x] \notin Compiling /\ Complete(x)'
  <2>1. building[x] \notin Compiling /\ Complete(x)
    <3>1. CASE file[i].by # None
      BY <1>5, <3>1, FilesGo DEF BundleInv
    <3>2. CASE file[i].by = None
      <4>1. file'[i].by # None
        BY <1>5, SeedAssumption
      <4>2. x = b /\ building[b] = "tables"
        BY <1>5, <3>2, <4>1, FilesGo
      <4> QED
        BY <4>2 DEF BundleInv, Written, Compiling
    <3> QED
      BY <3>1, <3>2
  <2> QED
    BY <1>2, <2>1
<1>6. ASSUME NEW c \in Callers, IsOpen(c)' PROVE Matches(c)'
  <2>1. IsOpen(c) /\ Matches(c) /\ opened[c].db \in Builders /\ opened'[c] = opened[c]
    BY <1>1, <1>6 DEF IsOpen, BundleInv
  <2>2. PICK i \in Builders : i = opened[c].db
    BY <2>1
  <2>3. PICK x \in Builders : x = file[i].by
    BY <1>4, <2>1, <2>2 DEF Matches
  <2>4. /\ x # None /\ file[i].full /\ BuildId(x) = opened[c].manifest.build
        /\ rows[x] = opened[c].manifest.digest /\ Ids(rows[x]) = opened[c].manifest.ids
    BY <2>1, <2>2, <2>3 DEF Matches, RowsIn
  <2>5. file'[i].by = x /\ file'[i].full
    BY <2>3, <2>4, FilesGo
  <2>6. building[x] \notin Compiling
    BY <2>3 DEF BundleInv
  <2>7. rows'[x] = rows[x] /\ BuildId(x)' = BuildId(x)
    BY <1>2, <2>6
  <2>8. BuildId(file[i].by)' = opened[c].manifest.build
    BY <2>4, <2>5, <2>7 DEF BuildId, Kept
  <2>9. RowsIn(i)' = rows[x] /\ Ids(rows[x]) = Ids(RowsIn(i))'
    BY <2>5, <2>7 DEF RowsIn, Ids
  <2> QED
    BY <2>1, <2>2, <2>4, <2>5, <2>8, <2>9 DEF Matches
<1>7. ASSUME NEW c \in Callers, step'[c] = "validate" \/ IsOpen(c)'
      PROVE  opened'[c].db \in Builders
  BY <1>1, <1>7 DEF IsOpen, BundleInv
<1>8. /\ DOMAIN building' = Builders /\ DOMAIN rows' = Builders /\ DOMAIN token' = Builders
      /\ DOMAIN declared' = Builders /\ DOMAIN conn' = Builders
      /\ dbAt' \in Builders \cup {None}
      /\ \A x \in Builders : building'[x] \in {"tables", "rows"} => conn'[x] \in Builders
  BY BuilderGoes, FilesGo
<1>9. DOMAIN step' = Callers /\ DOMAIN opened' = Callers
  BY <1>1 DEF BundleInv
<1> QED
  BY <1>3, <1>4, <1>5, <1>6, <1>7, <1>8, <1>9 DEF BundleInv

\* A call that looks at nothing new keeps what it has open, or gives it up.
LEMMA CallerKeepsBundle ==
  ASSUME BundleInv, NEW c \in Callers, UNCHANGED <<build, disk>>,
         DOMAIN step' = Callers, DOMAIN opened' = Callers,
         \A d \in Callers \ {c} : step'[d] = step[d] /\ opened'[d] = opened[d],
         step'[c] = "validate" \/ IsOpen(c)' => opened'[c].db \in Builders,
         IsOpen(c)' => opened'[c] = opened[c] /\ Matches(c)
  PROVE  BundleInv'
<1>1. \A b \in Builders : (Complete(b) <=> Complete(b)')
  BY DEF build, Complete, Kept
<1>2. ASSUME NEW d \in Callers, IsOpen(d)' PROVE Matches(d)'
  <2>1. opened'[d] = opened[d] /\ Matches(d)
    BY <1>2 DEF BundleInv, IsOpen
  <2>2. /\ UNCHANGED <<file, rows>> /\ \A b : BuildId(b)' = BuildId(b)
    BY DEF BuildId, Kept, build, disk
  <2>3. \A i : BuildId(file[i].by)' = BuildId(file[i].by) /\ RowsIn(i)' = RowsIn(i)
    BY <2>2 DEF RowsIn, BuildId, Kept, build
  <2>4. \A i : Ids(RowsIn(i))' = Ids(RowsIn(i))
    BY <2>3 DEF Ids
  <2> QED
    BY <2>1, <2>2, <2>3, <2>4 DEF Matches
<1>3. ASSUME NEW d \in Callers, step'[d] = "validate" \/ IsOpen(d)' PROVE opened'[d].db \in Builders
  BY <1>3 DEF BundleInv, IsOpen
<1>4. ASSUME NEW i \in Builders, NEW b \in Builders, file'[i].by = b
      PROVE  building'[b] \notin Compiling /\ Complete(b)'
  BY <1>1, <1>4 DEF BundleInv, build, disk
<1>5. \A b \in Builders : building'[b] \in Written => Complete(b)'
  BY <1>1 DEF BundleInv, build
<1> QED
  BY <1>2, <1>3, <1>4, <1>5 DEF BundleInv, build, disk

LEMMA OpenKeepsBundle ==
  ASSUME BundleInv, NEW c \in Callers, OpenStep(c) \/ Search(c)
  PROVE  BundleInv'
<1>1. UNCHANGED <<build, disk>>
  BY DEF OpenStep, ReadManifest, CompareSum, ConnectReadonly, Validate, Search
<1>2. CASE \/ /\ Refuse(c) \/ (Ends(c) /\ UNCHANGED opened)
           \/ Steps(c, "checksum") /\ opened' = [opened EXCEPT ![c] = [manifest |-> manifest, db |-> None]]
           \/ Steps(c, "connect") /\ UNCHANGED opened
  <2>1. /\ DOMAIN step' = Callers /\ DOMAIN opened' = Callers
        /\ \A d \in Callers \ {c} : step'[d] = step[d] /\ opened'[d] = opened[d]
        /\ step'[c] \in {"idle", "checksum", "connect"}
    BY <1>2 DEF Refuse, Ends, Steps, BundleInv
  <2> QED
    BY <1>1, <2>1, CallerKeepsBundle DEF IsOpen
<1>3. CASE /\ dbAt # None /\ Steps(c, "validate")
           /\ opened' = [opened EXCEPT ![c] = [manifest |-> @.manifest, db |-> dbAt]]
  <2>1. /\ DOMAIN step' = Callers /\ DOMAIN opened' = Callers
        /\ \A d \in Callers \ {c} : step'[d] = step[d] /\ opened'[d] = opened[d]
        /\ step'[c] = "validate" /\ opened'[c].db \in Builders
    BY <1>3 DEF Steps, BundleInv
  <2> QED
    BY <1>1, <2>1, CallerKeepsBundle DEF IsOpen
<1>4. CASE On(c, "validate") /\ Matches(c) /\ Steps(c, "open") /\ UNCHANGED opened
  <2>1. /\ DOMAIN step' = Callers /\ DOMAIN opened' = Callers
        /\ \A d \in Callers \ {c} : step'[d] = step[d] /\ opened'[d] = opened[d]
        /\ opened'[c].db \in Builders /\ opened'[c] = opened[c]
    BY <1>4 DEF Steps, On, BundleInv
  <2> QED
    BY <1>1, <1>4, <2>1, CallerKeepsBundle
<1>5. CASE ReadManifest(c)
  BY <1>2, <1>5 DEF ReadManifest
<1>6. CASE CompareSum(c)
  BY <1>2, <1>6 DEF CompareSum
<1>7. CASE ConnectReadonly(c)
  BY <1>2, <1>3, <1>7 DEF ConnectReadonly
<1>8. CASE Validate(c)
  BY <1>2, <1>4, <1>8 DEF Validate
<1>9. CASE Search(c)
  BY <1>2, <1>9 DEF Search
<1> QED
  BY <1>5, <1>6, <1>7, <1>8, <1>9 DEF OpenStep

\* A call that generates goes on with the bundle it has open, or gives it up.
LEMMA GenerateKeepsBundle ==
  ASSUME BundleInv, NEW c \in Callers, GenerateStep(c)
  PROVE  BundleInv'
<1>1. UNCHANGED <<build, disk>>
  BY DEF GenerateStep, Generate, AskProvider, ProviderFails, ProviderOffers, PutLooks, OpensTmp,
    Fills, Replaces, CallKilled
<1>2. CASE Refuse(c)
  <2>1. /\ DOMAIN step' = Callers /\ DOMAIN opened' = Callers /\ step'[c] = "idle"
        /\ \A d \in Callers \ {c} : step'[d] = step[d] /\ opened'[d] = opened[d]
    BY <1>2 DEF Refuse, Ends, Steps, BundleInv
  <2> QED
    BY <1>1, <2>1, CallerKeepsBundle DEF IsOpen
<1>3. CASE IsOpen(c) /\ UNCHANGED opened /\ \E where : Steps(c, where)
  <2>1. /\ DOMAIN step' = Callers /\ DOMAIN opened' = Callers
        /\ \A d \in Callers \ {c} : step'[d] = step[d] /\ opened'[d] = opened[d]
        /\ opened'[c] = opened[c] /\ opened[c].db \in Builders /\ Matches(c)
    BY <1>3 DEF Steps, BundleInv
  <2> QED
    BY <1>1, <2>1, CallerKeepsBundle
<1>4. IsOpen(c)
  BY DEF GenerateStep, Generate, AskProvider, ProviderFails, ProviderOffers, PutLooks, OpensTmp,
    Fills, Replaces, CallKilled, On, IsOpen
<1>5. ASSUME NEW parents, Derives(c, parents)
      PROVE  Refuse(c) \/ (UNCHANGED opened /\ \E where : Steps(c, where))
  BY <1>5 DEF Derives, Refused, Stops, Makes
<1>6. CASE Generate(c) \/ ProviderFails(c)
  BY <1>2, <1>3, <1>4, <1>5, <1>6 DEF Generate, ProviderFails
<1>7. CASE AskProvider(c)
  BY <1>2, <1>3, <1>4, <1>7 DEF AskProvider, Stops
<1>8. CASE ProviderOffers(c)
  BY <1>3, <1>4, <1>8 DEF ProviderOffers, Makes
<1>9. CASE PutLooks(c) \/ OpensTmp(c) \/ Fills(c) \/ Replaces(c) \/ CallKilled(c)
  BY <1>2, <1>3, <1>4, <1>9 DEF PutLooks, OpensTmp, Fills, Replaces, CallKilled, Stops
<1> QED
  BY <1>6, <1>7, <1>8, <1>9 DEF GenerateStep

LEMMA BundleStays ==
  ASSUME BundleInv, UNCHANGED <<build, disk, step, opened>>
  PROVE  BundleInv'
<1>1. \A b \in Builders : (Complete(b) <=> Complete(b)')
  BY DEF build, Complete, Kept
<1>2. ASSUME NEW c \in Callers, IsOpen(c)' PROVE Matches(c)'
  <2>1. IsOpen(c)
    BY <1>2 DEF IsOpen
  <2>2. Matches(c)
    BY <2>1 DEF BundleInv
  <2>3. /\ token' = token /\ declared' = declared /\ rows' = rows /\ file' = file
        /\ opened' = opened
    BY DEF build, disk
  <2>4. \A b : BuildId(b)' = BuildId(b)
    BY <2>3 DEF BuildId, Kept
  <2>5. \A i : RowsIn(i)' = RowsIn(i)
    BY <2>3 DEF RowsIn
  <2> QED
    BY <2>2, <2>3, <2>4, <2>5 DEF Matches, Ids
<1>3. ASSUME NEW i \in Builders, NEW b \in Builders, file'[i].by = b
      PROVE  building'[b] \notin Compiling /\ Complete(b)'
  BY <1>1, <1>3 DEF BundleInv, build, disk
<1>4. \A b \in Builders : building'[b] \in Written => Complete(b)'
  BY <1>1 DEF BundleInv, build
<1> QED
  BY <1>2, <1>3, <1>4 DEF BundleInv, IsOpen, build, disk

\* Every step keeps the bundle.
LEMMA BundleKept == BundleInv /\ [Next]_vars => BundleInv'
<1> SUFFICES ASSUME BundleInv, [Next]_vars PROVE BundleInv'
  OBVIOUS
<1>1. CASE SeedStep
  <2>1. CASE \E b \in Builders : BuildStep(b) \/ Killed(b)
    BY <2>1, BuilderKeepsBundle
  <2>2. CASE UserRewrites
    BY <2>2, BundleStays DEF UserRewrites
  <2>3. CASE \E c \in Callers : OpenStep(c) \/ Search(c)
    BY <2>3, OpenKeepsBundle
  <2> QED
    BY <1>1, <2>1, <2>2, <2>3, GenerateAssumption DEF SeedStep
<1>2. CASE \E c \in Callers : GenerateStep(c)
  BY <1>2, GenerateKeepsBundle
<1>3. CASE UNCHANGED vars
  BY <1>3, BundleStays DEF vars, seedVars
<1> QED
  BY <1>1, <1>2, <1>3 DEF Next

\* As long as a call has the bundle open, what it reads are the artifacts of the manifest it
\* has read, all of them and nothing else, however many builders write the directory, fail or
\* are killed meanwhile (index.py open_readonly_index).
THEOREM OpenedSafety == Spec => []OpenedIsWhole
<1>1. BundleInv => OpenedIsWhole
  <2> SUFFICES ASSUME BundleInv, NEW c \in Callers, IsOpen(c)
      PROVE  /\ file[opened[c].db].full /\ Index(c) = opened[c].manifest.digest
             /\ Ids(Index(c)) = opened[c].manifest.ids
             /\ Len(Index(c)) = Cardinality(opened[c].manifest.build)
    BY DEF OpenedIsWhole
  <2> DEFINE x == file[opened[c].db].by
  <2>1. Matches(c) /\ opened[c].db \in Builders
    BY DEF BundleInv
  <2>2. x \in Builders /\ Complete(x)
    BY <2>1 DEF Matches, BundleInv
  <2>3. Cardinality(BuildId(x)) = Cardinality(Kept(x))
    BY <2>2, BuildIdCounts
  <2> QED
    BY <2>1, <2>2, <2>3 DEF Matches, Index, RowsIn, Complete
<1> QED
  BY InitBundle, BundleKept, <1>1, PTL DEF Spec

(***************************************************************************)
(* The pages: what is sorted by rank is sorted, and what is behind an item *)
(* of a sorted ranking is its tail.                                        *)
(***************************************************************************)
\* A strict order of all members of P, as the set of its pairs.
Orders(R, P) ==
  /\ \A i \in P : <<i, i>> \notin R
  /\ \A i, j \in P : i # j => <<i, j>> \in R \/ <<j, i>> \in R
  /\ \A i, j, k \in P : <<i, j>> \in R /\ <<j, k>> \in R => <<i, k>> \in R
Below(R, P, i) == {j \in P : <<j, i>> \in R}

\* In a finite order, more are below who comes later, and for each number below the
\* size there is one with as many below it.
LEMMA RanksAre ==
  ASSUME NEW P, IsFiniteSet(P), NEW R, Orders(R, P)
  PROVE  /\ \A i \in P : Cardinality(Below(R, P, i)) \in 0..(Cardinality(P) - 1)
         /\ \A i, j \in P :
              Cardinality(Below(R, P, i)) < Cardinality(Below(R, P, j)) <=> <<i, j>> \in R
         /\ \A k \in 1..Cardinality(P) : \E i \in P : Cardinality(Below(R, P, i)) = k - 1
<1> DEFINE rank == [i \in P |-> Cardinality(Below(R, P, i))]
           n == Cardinality(P)
<1>1. n \in Nat
  BY FS_CardinalityType
<1>2. ASSUME NEW i \in P
      PROVE  /\ Below(R, P, i) \in SUBSET P /\ IsFiniteSet(Below(R, P, i))
             /\ Cardinality(Below(R, P, i)) \in Nat /\ Cardinality(Below(R, P, i)) <= n - 1
  <2>1. Below(R, P, i) \in SUBSET P /\ i \notin Below(R, P, i)
    BY DEF Below, Orders
  <2>2. /\ IsFiniteSet(Below(R, P, i)) /\ Cardinality(Below(R, P, i)) <= n
        /\ (n = Cardinality(Below(R, P, i)) => P = Below(R, P, i))
    BY <2>1, FS_Subset
  <2>3. Cardinality(Below(R, P, i)) \in Nat
    BY <2>2, FS_CardinalityType
  <2> QED
    BY <1>1, <2>1, <2>2, <2>3
<1>3. ASSUME NEW i \in P, NEW j \in P, <<i, j>> \in R
      PROVE  Cardinality(Below(R, P, i)) < Cardinality(Below(R, P, j))
  <2>1. Below(R, P, i) \in SUBSET Below(R, P, j)
    BY <1>3 DEF Below, Orders
  <2>2. i \in Below(R, P, j) /\ i \notin Below(R, P, i)
    BY <1>3 DEF Below, Orders
  <2>3. /\ Cardinality(Below(R, P, i)) <= Cardinality(Below(R, P, j))
        /\ (Cardinality(Below(R, P, j)) = Cardinality(Below(R, P, i)) => Below(R, P, j) = Below(R, P, i))
    BY <1>2, <2>1, FS_Subset
  <2>4. Cardinality(Below(R, P, i)) # Cardinality(Below(R, P, j))
    BY <2>2, <2>3
  <2> QED
    BY <1>2, <2>3, <2>4
<1>4. ASSUME NEW i \in P, NEW j \in P, Cardinality(Below(R, P, i)) < Cardinality(Below(R, P, j))
      PROVE  <<i, j>> \in R
  <2>1. i # j
    BY <1>2, <1>4
  <2>2. CASE <<j, i>> \in R
    <3>1. Cardinality(Below(R, P, j)) < Cardinality(Below(R, P, i))
      BY <1>3, <2>2
    <3> QED
      BY <1>2, <1>4, <3>1
  <2> QED
    BY <2>1, <2>2 DEF Orders
<1>5. rank \in [P -> 0..(n - 1)]
  BY <1>1, <1>2
<1>6. \A i, j \in P : rank[i] = rank[j] => i = j
  <2>1. ASSUME NEW i \in P, NEW j \in P, rank[i] = rank[j], i # j PROVE FALSE
    <3>1. <<i, j>> \in R \/ <<j, i>> \in R
      BY <2>1 DEF Orders
    <3> QED
      BY <1>2, <1>3, <2>1, <3>1
  <2> QED
    BY <2>1
<1>7. rank \in Injection(P, 0..(n - 1))
  BY <1>5, <1>6 DEF Injection, IsInjective
<1>8. IsFiniteSet(0..(n - 1)) /\ Cardinality(0..(n - 1)) = n
  BY <1>1, FS_Interval
<1>9. rank \in Surjection(P, 0..(n - 1))
  BY <1>7, <1>8, FS_Injection
<1>10. \A k \in 1..n : \E i \in P : rank[i] = k - 1
  <2>1. ASSUME NEW k \in 1..n PROVE \E i \in P : rank[i] = k - 1
    <3>1. k - 1 \in 0..(n - 1)
      BY <1>1
    <3> QED
      BY <1>9, <3>1 DEF Surjection
  <2> QED
    BY <2>1
<1>11. \A i \in P : Cardinality(Below(R, P, i)) \in 0..(n - 1)
  BY <1>1, <1>2
<1> QED
  BY <1>3, <1>4, <1>10, <1>11

\* Who is taken next of the inputs is one of them.
LEMMA DueIsKept ==
  ASSUME NEW b \in Builders, token[b] \in [Files -> Contents \cup {0}],
         Len(rows[b]) \in Nat, Len(rows[b]) < Cardinality(Kept(b))
  PROVE  Due(b) \in Kept(b) /\ Due(b) \in Files
<1> DEFINE P == Kept(b)
           R == {p \in P \X P : token[b][p[1]] < token[b][p[2]]}
<1>1. P \in SUBSET Files /\ IsFiniteSet(P)
  BY SeedAssumption, FS_Subset DEF Kept
<1>2. \A f \in P : token[b][f] \in Nat
  <2>1. \A f \in Files : token[b][f] \in Contents \cup {0}
    OBVIOUS
  <2>2. Contents \cup {0} \in SUBSET Nat
    BY SeedAssumption
  <2> QED
    BY <1>1, <2>1, <2>2
<1>3. \A f, g \in P : token[b][f] = token[b][g] => f = g
  <2>1. ASSUME NEW f \in P, NEW g \in P, token[b][f] = token[b][g] PROVE f = g
    <3>1. f <= g /\ g <= f /\ f \in Nat /\ g \in Nat
      BY <1>1, <2>1, SeedAssumption DEF Kept
    <3> QED
      BY <3>1
  <2> QED
    BY <2>1
<1>4. \A f, g \in P : <<f, g>> \in R <=> token[b][f] < token[b][g]
  OBVIOUS
<1>5. Orders(R, P)
  <2> HIDE DEF R, P
  <2> QED
    BY <1>2, <1>3, <1>4 DEF Orders
<1>6. Cardinality(P) \in Nat
  BY <1>1, FS_CardinalityType
<1>7. Len(rows[b]) + 1 \in 1..Cardinality(P) /\ (Len(rows[b]) + 1) - 1 = Len(rows[b])
  BY <1>6
<1>8. PICK f \in P : Cardinality(Below(R, P, f)) = Len(rows[b])
  <2> HIDE DEF R, P
  <2> QED
    BY <1>1, <1>5, <1>7, RanksAre
<1>9. Below(R, P, f) = {g \in Kept(b) : token[b][g] < token[b][f]}
  BY <1>4, <1>8 DEF Below
<1> QED
  BY <1>1, <1>8, <1>9 DEF Due

\* Scores, contents and levels can be compared.
LEMMA ScoreIsNat ==
  ASSUME NEW r \in Artifacts
  PROVE  Score(r) \in Nat /\ r.content \in Nat /\ r.level \in Nat
<1>1. r.content \in Contents /\ r.level \in 0..2 /\ r.paths \in SUBSET Files
  BY DEF Artifacts
<1>2. Scores[r.content] \in Nat /\ r.content \in Nat
  BY <1>1, SeedAssumption
<1>3. Cardinality(r.paths) \in Nat
  BY <1>1, SeedAssumption, FS_Subset, FS_CardinalityType
<1> QED
  BY <1>1, <1>2, <1>3 DEF Score

\* The key of the sort orders artifacts, but for those that agree in content and level.
LEMMA PrecedesIsStrict ==
  /\ \A r \in Artifacts : ~Precedes(r, r)
  /\ \A r, s, t \in Artifacts : Precedes(r, s) /\ Precedes(s, t) => Precedes(r, t)
  /\ \A r, s \in Artifacts :
       Precedes(r, s) \/ Precedes(s, r) \/ (r.content = s.content /\ r.level = s.level)
<1>1. ASSUME NEW r \in Artifacts PROVE ~Precedes(r, r)
  BY <1>1, ScoreIsNat DEF Precedes
<1>2. ASSUME NEW r \in Artifacts, NEW s \in Artifacts, NEW t \in Artifacts,
             Precedes(r, s), Precedes(s, t)
      PROVE  Precedes(r, t)
  <2>1. /\ Score(r) \in Nat /\ r.content \in Nat /\ r.level \in Nat
        /\ Score(s) \in Nat /\ s.content \in Nat /\ s.level \in Nat
        /\ Score(t) \in Nat /\ t.content \in Nat /\ t.level \in Nat
    BY ScoreIsNat
  <2> QED
    BY <1>2, <2>1 DEF Precedes
<1>3. ASSUME NEW r \in Artifacts, NEW s \in Artifacts
      PROVE  Precedes(r, s) \/ Precedes(s, r) \/ (r.content = s.content /\ r.level = s.level)
  <2>1. /\ Score(r) \in Nat /\ r.content \in Nat /\ r.level \in Nat
        /\ Score(s) \in Nat /\ s.content \in Nat /\ s.level \in Nat
    BY ScoreIsNat
  <2> QED
    BY <2>1 DEF Precedes
<1> QED
  BY <1>1, <1>2, <1>3

\* The rows of one build, no two with one id.
Indexable(rs) ==
  /\ rs \in Seq(Artifacts) /\ IsInjective(Ids(rs))
  /\ \E b : \A i \in DOMAIN rs : rs[i].build = b

\* A ranking of rows with different ids is strictly ordered.
LEMMA RankedIs ==
  ASSUME NEW rs, Indexable(rs)
  PROVE  /\ Ranked(rs) \in Seq(Artifacts) /\ Len(Ranked(rs)) = Len(rs)
         /\ \A k, l \in 1..Len(rs) : k < l <=> Precedes(Ranked(rs)[k], Ranked(rs)[l])
<1> DEFINE n == Len(rs)
           P == 1..n
           R == {p \in P \X P : Precedes(rs[p[1]], rs[p[2]])}
           at(k) == CHOOSE i \in DOMAIN rs : Cardinality(Ahead(rs, i)) = k - 1
<1>1. n \in Nat /\ DOMAIN rs = P /\ \A i \in P : rs[i] \in Artifacts
  BY DEF Indexable
<1>2. IsFiniteSet(P) /\ Cardinality(P) = n
  BY <1>1, FS_Interval
<1>3. \A i, j \in P : <<i, j>> \in R <=> Precedes(rs[i], rs[j])
  OBVIOUS
<1>4. ASSUME NEW i \in P, NEW j \in P, i # j
      PROVE  Precedes(rs[i], rs[j]) \/ Precedes(rs[j], rs[i])
  <2>1. Ids(rs)[i] # Ids(rs)[j]
    BY <1>1, <1>4 DEF Indexable, IsInjective, Ids
  <2>2. Id(rs[i]) # Id(rs[j])
    BY <1>1, <2>1 DEF Ids
  <2>3. rs[i].build = rs[j].build
    BY <1>1 DEF Indexable
  <2>4. ~(rs[i].content = rs[j].content /\ rs[i].level = rs[j].level)
    BY <2>2, <2>3 DEF Id
  <2> QED
    BY <1>1, <2>4, PrecedesIsStrict
<1>5. \A i \in P : ~Precedes(rs[i], rs[i])
  BY <1>1, PrecedesIsStrict
<1>6. \A i, j, k \in P : Precedes(rs[i], rs[j]) /\ Precedes(rs[j], rs[k]) => Precedes(rs[i], rs[k])
  BY <1>1, PrecedesIsStrict
<1>7. Orders(R, P)
  <2> HIDE DEF R, P
  <2> QED
    BY <1>3, <1>4, <1>5, <1>6 DEF Orders
<1>8. \A i \in P : Ahead(rs, i) = Below(R, P, i)
  <2>1. ASSUME NEW i \in P, NEW j \in P
        PROVE  Precedes(rs[j], rs[i]) \/ (~Precedes(rs[i], rs[j]) /\ j < i) <=> <<j, i>> \in R
    <3>1. j < i => j # i
      BY <1>1
    <3> HIDE DEF R, P
    <3> QED
      BY <1>3, <1>4, <3>1
  <2>2. ASSUME NEW i \in P PROVE Ahead(rs, i) = Below(R, P, i)
    <3> HIDE DEF R
    <3> QED
      BY <1>1, <2>1, <2>2 DEF Ahead, Below
  <2> QED
    BY <2>2
<1>9. /\ \A i, j \in P : Cardinality(Below(R, P, i)) < Cardinality(Below(R, P, j)) <=> <<i, j>> \in R
      /\ \A k \in 1..Cardinality(P) : \E i \in P : Cardinality(Below(R, P, i)) = k - 1
  <2> HIDE DEF R, P
  <2> QED
    BY <1>2, <1>7, RanksAre
<1>10. ASSUME NEW k \in P PROVE at(k) \in P /\ Cardinality(Below(R, P, at(k))) = k - 1
  <2>1. PICK i \in P : Cardinality(Below(R, P, i)) = k - 1
    BY <1>2, <1>9, <1>10
  <2>2. \E j \in DOMAIN rs : Cardinality(Ahead(rs, j)) = k - 1
    BY <1>1, <1>8, <2>1
  <2>3. at(k) \in P /\ Cardinality(Ahead(rs, at(k))) = k - 1
    BY <1>1, <2>2
  <2> QED
    BY <1>8, <2>3
<1>11. Ranked(rs) = [k \in 1..n |-> rs[at(k)]]
  BY <1>1 DEF Ranked
<1>12. \A k \in P : rs[at(k)] \in Artifacts
  BY <1>1, <1>10
<1>13. Ranked(rs) \in Seq(Artifacts) /\ Len(Ranked(rs)) = n /\ \A k \in P : Ranked(rs)[k] = rs[at(k)]
  <2> HIDE DEF at
  <2> QED
    BY <1>1, <1>11, <1>12
<1>14. ASSUME NEW k \in P, NEW l \in P
       PROVE  k < l <=> Precedes(Ranked(rs)[k], Ranked(rs)[l])
  <2>1. k - 1 < l - 1 <=> k < l
    BY <1>1
  <2>2. k - 1 < l - 1 <=> <<at(k), at(l)>> \in R
    <3> HIDE DEF R, P, at
    <3> QED
      BY <1>9, <1>10
  <2>3. <<at(k), at(l)>> \in R <=> Precedes(rs[at(k)], rs[at(l)])
    <3> HIDE DEF R, P, at
    <3> QED
      BY <1>3, <1>10
  <2> HIDE DEF R, P, at
  <2> QED
    BY <1>13, <2>1, <2>2, <2>3
<1> QED
  BY <1>13, <1>14

\* The items behind the first n.
LEMMA ThoseBehind ==
  ASSUME NEW S, NEW s \in Seq(S), NEW n \in 0..Len(s)
  PROVE  Those(s, (n + 1)..Len(s)) = SubSeq(s, n + 1, Len(s))
<1> DEFINE m == Len(s)
           places == (n + 1)..m
           at(k) == CHOOSE i \in places : Cardinality({j \in places : j < i}) = k - 1
<1>1. n \in Nat /\ m \in Nat /\ n <= m /\ s \in [1..m -> S]
  OBVIOUS
<1>2. Cardinality(places) = m - n
  <2>1. n + 1 \in Int /\ m \in Int
    BY <1>1
  <2>2. Cardinality(places) = IF n + 1 > m THEN 0 ELSE m - (n + 1) + 1
    BY <2>1, FS_Interval, Zenon
  <2> QED
    BY <1>1, <2>2
<1>3. ASSUME NEW i \in places PROVE Cardinality({j \in places : j < i}) = i - n - 1
  <2>1. i \in Nat /\ n + 1 <= i /\ i <= m
    BY <1>1
  <2>2. {j \in places : j < i} = (n + 1)..(i - 1)
    BY <1>1, <2>1
  <2>3. Cardinality((n + 1)..(i - 1)) = IF n + 1 > i - 1 THEN 0 ELSE (i - 1) - (n + 1) + 1
    BY <1>1, <2>1, FS_Interval
  <2>4. (IF n + 1 > i - 1 THEN 0 ELSE (i - 1) - (n + 1) + 1) = i - n - 1
    BY <1>1, <2>1
  <2> QED
    BY <2>2, <2>3, <2>4, Zenon
<1>4. ASSUME NEW k \in 1..(m - n) PROVE at(k) = n + k
  <2>1. n + k \in places /\ (n + k) - n - 1 = k - 1
    BY <1>1
  <2>2. Cardinality({j \in places : j < n + k}) = k - 1
    BY <1>3, <2>1
  <2>3. at(k) \in places /\ Cardinality({j \in places : j < at(k)}) = k - 1
    <3> HIDE DEF places
    <3> QED
      BY <2>1, <2>2
  <2>4. at(k) - n - 1 = k - 1 /\ at(k) \in Nat
    <3>1. at(k) \in Nat
      BY <1>1, <2>3
    <3> HIDE DEF at
    <3> QED
      BY <1>3, <2>3, <3>1
  <2> HIDE DEF at
  <2> QED
    BY <1>1, <2>4
<1>5. Those(s, places) = [k \in 1..(m - n) |-> s[at(k)]]
  BY <1>2 DEF Those
<1>6. SubSeq(s, n + 1, m) = [k \in 1..(m - n) |-> s[n + k]]
  <2>1. SubSeq(s, n + 1, m) = [k \in 1..(m - (n + 1) + 1) |-> s[n + 1 + k - 1]]
    BY <1>1
  <2>2. m - (n + 1) + 1 = m - n /\ \A k \in 1..(m - n) : n + 1 + k - 1 = n + k
    BY <1>1
  <2> QED
    BY <2>1, <2>2
<1> HIDE DEF at, places, m
<1> QED
  BY <1>4, <1>5, <1>6 DEF m, places

\* What the filter leaves behind the n-th item is the tail of the ranking.
LEMMA RemainingIs ==
  ASSUME NEW rs, Indexable(rs), NEW n \in 1..Len(rs)
  PROVE  Remaining(Ranked(rs), Ranked(rs)[n]) = SubSeq(Ranked(rs), n + 1, Len(rs))
<1> DEFINE R == Ranked(rs)
           m == Len(rs)
<1>1. R \in Seq(Artifacts) /\ Len(R) = m /\ m \in Nat /\ DOMAIN R = 1..m
  <2>1. R \in Seq(Artifacts) /\ Len(R) = m
    BY RankedIs
  <2> HIDE DEF R, m
  <2> QED
    BY <2>1, LenProperties
<1>2. \A k, l \in 1..m : k < l <=> Precedes(R[k], R[l])
  BY RankedIs
<1>3. {i \in DOMAIN R : Precedes(R[n], R[i])} = {i \in 1..m : n < i}
  <2> HIDE DEF R, m
  <2> QED
    BY <1>1, <1>2 DEF m
<1>4. {i \in 1..m : n < i} = (n + 1)..m
  BY <1>1
<1>5. n \in 0..Len(R)
  BY <1>1
<1>6. Those(R, (n + 1)..Len(R)) = SubSeq(R, n + 1, Len(R))
  BY <1>1, <1>5, ThoseBehind
<1> HIDE DEF R, m
<1> QED
  BY <1>1, <1>3, <1>4, <1>6 DEF Remaining, R, m

\* One page more, of a limit that the result shows whole.
LEMMA PageIs ==
  ASSUME NEW S, NEW s \in Seq(S), NEW n \in 0..Len(s), Limit <= ListCap,
         NEW page, page = Prefix(SubSeq(s, n + 1, Len(s)), Limit)
  PROVE  /\ Prefix(page, ListCap) = page
         /\ n + Len(page) \in n..Len(s) /\ Len(SubSeq(s, n + 1, Len(s))) = Len(s) - n
         /\ SubSeq(s, 1, n) \o page = SubSeq(s, 1, n + Len(page))
         /\ page # <<>> => n + Len(page) \in 1..Len(s) /\ page[Len(page)] = s[n + Len(page)]
         /\ page = <<>> => n = Len(s)
<1> DEFINE m == Len(s)
           left == SubSeq(s, n + 1, m)
           k == IF m - n < Limit THEN m - n ELSE Limit
<1>1. m \in Nat /\ n \in Nat /\ n <= m /\ Limit \in Nat /\ Limit >= 1 /\ ListCap \in Nat
  BY SeedAssumption
<1>2. left \in Seq(S) /\ Len(left) = m - n /\ \A i \in 1..(m - n) : left[i] = s[n + i]
  BY <1>1
<1>3. k \in Nat /\ k <= m - n /\ k <= Limit /\ (k = 0 => n = m)
  BY <1>1
<1>4. page = SubSeq(left, 1, k)
  BY <1>2 DEF Prefix
<1>5. page \in Seq(S) /\ Len(page) = k /\ \A i \in 1..k : page[i] = left[i]
  <2>1. \A i \in 1..k : left[i] \in S
    <3>1. \A i \in 1..k : i \in 1..Len(left)
      BY <1>2, <1>3
    <3> HIDE DEF left, k
    <3> QED
      BY <1>2, <3>1, ElementOfSeq
  <2> HIDE DEF left, k
  <2>2. /\ SubSeq(left, 1, k) \in Seq(S)
        /\ Len(SubSeq(left, 1, k)) = IF 1 <= k THEN k - 1 + 1 ELSE 0
        /\ \A i \in 1..(k - 1 + 1) : SubSeq(left, 1, k)[i] = left[1 + i - 1]
    BY <1>3, <2>1, SubSeqProperties
  <2>3. k - 1 + 1 = k /\ (IF 1 <= k THEN k - 1 + 1 ELSE 0) = k /\ \A i \in 1..k : 1 + i - 1 = i
    BY <1>3
  <2> QED
    BY <1>4, <2>2, <2>3
<1>6. \A i \in 1..k : page[i] = s[n + i]
  <2>1. \A i \in 1..k : i \in 1..(m - n)
    BY <1>1, <1>3
  <2> HIDE DEF left, k
  <2> QED
    BY <1>2, <1>5, <2>1
<1> HIDE DEF left, k
<1>7. Prefix(page, ListCap) = page
  <2>1. Prefix(page, ListCap) = SubSeq(page, 1, k)
    <3>1. k <= ListCap
      BY <1>1, <1>3
    <3>2. Len(page) < ListCap \/ Len(page) = ListCap
      BY <1>1, <1>3, <1>5, <3>1
    <3> QED
      BY <1>1, <1>5, <3>2 DEF Prefix
  <2> QED
    BY <1>3, <1>5, <2>1
<1>8. n + k \in n..m /\ (k # 0 => n + k \in 1..m /\ page[k] = s[n + k])
  BY <1>1, <1>3, <1>6
<1>9. SubSeq(s, 1, n) \o page = SubSeq(s, 1, n + k)
  <2> DEFINE front == SubSeq(s, 1, n)
             all == SubSeq(s, 1, n + k)
  <2>1. front \in Seq(S) /\ Len(front) = n /\ \A i \in 1..n : front[i] = s[i]
    BY <1>1
  <2>2. n + k \in Nat /\ n + k <= m
    BY <1>1, <1>8
  <2>3. all \in Seq(S) /\ Len(all) = n + k /\ \A i \in 1..(n + k) : all[i] = s[i]
    BY <1>1, <2>2
  <2> HIDE DEF front, all
  <2>4. /\ front \o page \in Seq(S) /\ Len(front \o page) = n + k
        /\ \A i \in 1..(n + k) : (front \o page)[i] = IF i <= n THEN front[i] ELSE page[i - n]
    <3>1. Len(front) + Len(page) = n + k
      BY <1>5, <2>1
    <3>2. /\ front \o page \in Seq(S) /\ Len(front \o page) = Len(front) + Len(page)
          /\ \A i \in 1..(Len(front) + Len(page)) :
               (front \o page)[i] = IF i <= Len(front) THEN front[i] ELSE page[i - Len(front)]
      <4>1. front \in Seq(S) /\ page \in Seq(S)
        BY <1>5, <2>1
      <4> QED
        BY <4>1, ConcatProperties
    <3>3. Len(front) = n
      BY <2>1
    <3> QED
      BY <3>1, <3>2, <3>3, Zenon
  <2>5. ASSUME NEW i \in 1..(n + k) PROVE (front \o page)[i] = all[i]
    <3>1. CASE i <= n
      <4>1. i \in 1..n
        BY <1>1, <1>3, <3>1
      <4> QED
        BY <2>1, <2>3, <2>4, <3>1, <4>1
    <3>2. CASE ~(i <= n)
      <4>1. i - n \in 1..k /\ n + (i - n) = i
        BY <1>1, <1>3, <3>2
      <4>2. page[i - n] = s[i]
        BY <1>6, <4>1
      <4> QED
        BY <2>3, <2>4, <3>2, <4>2
    <3> QED
      BY <3>1, <3>2
  <2>6. front \o page = all
    BY <2>3, <2>4, <2>5, SeqEqual
  <2> QED
    BY <2>6 DEF front, all
<1>10. page = <<>> <=> k = 0
  BY <1>3, <1>5
<1> QED
  BY <1>2, <1>3, <1>5, <1>7, <1>8, <1>9, <1>10 DEF left

\* Where a builder is whose rows have been found to have different ids.
Indexed == {"unlink", "connect", "tables", "rows", "committed", "summed", "remanifest", "done"}
RowsOk(b) ==
  /\ building[b] = "idle" => rows[b] = <<>>
  /\ building[b] = "parsing" => Len(rows[b]) < Cardinality(Kept(b))
  /\ rows[b] \in Seq(Artifacts)
  /\ \A i \in DOMAIN rows[b] : rows[b][i].build = BuildId(b)
  /\ building[b] \in Indexed => IsInjective(Ids(rows[b]))
\* What a builder compiles is typed, of its own build, and in an index without a tie.
RowsInv ==
  /\ content \in [Files -> Contents \cup {0}]
  /\ token \in [Builders -> [Files -> Contents \cup {0}]]
  /\ declared \in [Builders -> [Files -> 0..2]]
  /\ \A b \in Builders : RowsOk(b)
  /\ \A i, b \in Builders : file[i].by = b => IsInjective(Ids(rows[b]))

LEMMA InitRows == Init => RowsInv
<1> SUFFICES ASSUME Init PROVE RowsInv
  OBVIOUS
<1>1. SeedInit
  BY DEF Init
<1>2. content \in [Files -> Contents \cup {0}] /\ token \in [Builders -> [Files -> Contents \cup {0}]]
  <2>1. Before \in [Files -> Contents \cup {0}]
    BY SeedAssumption
  <2> QED
    BY <1>1, <2>1 DEF SeedInit
<1>3. declared \in [Builders -> [Files -> 0..2]]
  BY <1>1 DEF SeedInit
<1>4. ASSUME NEW b \in Builders PROVE RowsOk(b)
  <2>1. building[b] = "idle" /\ rows[b] = <<>>
    BY <1>1 DEF SeedInit
  <2> QED
    BY <2>1 DEF RowsOk, Indexed
<1>5. \A i \in Builders : file[i].by = None
  BY <1>1 DEF SeedInit
<1> QED
  BY <1>2, <1>3, <1>4, <1>5, SeedAssumption DEF RowsInv

\* The identity of a build and what it compiles are typed, so that a cursor is not None.
LEMMA BuildsAre ==
  ASSUME RowsInv, NEW b \in Builders
  PROVE  BuildId(b) \in Builds
<1>1. \A f \in Kept(b) : f \in Files
  BY DEF Kept
<1>2. \A f \in Files : token[b][f] \in Contents \cup {0} /\ declared[b][f] \in 0..2
  BY DEF RowsInv
<1> QED
  BY <1>1, <1>2 DEF BuildId, Builds

LEMMA CompiledIs ==
  ASSUME RowsInv, NEW b \in Builders, NEW f \in Files, content[f] # 0
  PROVE  Compiled(b, f) \in Artifacts
<1>1. content[f] \in Contents /\ declared[b][f] \in 0..2
  BY DEF RowsInv
<1>2. {g \in Files : token[b][g] = token[b][f]} \in SUBSET Files
  OBVIOUS
<1> QED
  BY <1>1, <1>2, BuildsAre DEF Compiled, Artifacts

\* One more artifact, or a builder that fails.
LEMMA ParseKeepsRows ==
  ASSUME BundleInv, RowsInv, NEW b \in Builders, Parse(b)
  PROVE  RowsOk(b)'
<1>1. /\ building[b] = "parsing" /\ UNCHANGED <<token, declared>>
      /\ BuildId(b)' = BuildId(b)
  BY DEF Parse, At, BuildId, Kept
<1>2. CASE Goes(b, "failed") /\ UNCHANGED rows
  <2>1. building'[b] = "failed" /\ rows'[b] = rows[b]
    BY <1>2 DEF Goes, BundleInv
  <2>2. rows[b] \in Seq(Artifacts) /\ \A i \in DOMAIN rows[b] : rows[b][i].build = BuildId(b)
    BY DEF RowsInv, RowsOk
  <2> QED
    BY <1>1, <2>1, <2>2 DEF RowsOk, Indexed
<1>3. CASE /\ content[Due(b)] # 0 /\ Goes(b, "compiling")
           /\ rows' = [rows EXCEPT ![b] = Append(@, Compiled(b, Due(b)))]
  <2>1. /\ building'[b] = "compiling" /\ rows'[b] = Append(rows[b], Compiled(b, Due(b)))
    BY <1>3 DEF Goes, BundleInv
  <2>2. /\ rows[b] \in Seq(Artifacts) /\ \A i \in DOMAIN rows[b] : rows[b][i].build = BuildId(b)
        /\ Len(rows[b]) < Cardinality(Kept(b)) /\ token[b] \in [Files -> Contents \cup {0}]
    BY <1>1 DEF RowsInv, RowsOk
  <2>3. Due(b) \in Files
    BY <2>2, LenProperties, DueIsKept
  <2>4. Compiled(b, Due(b)) \in Artifacts /\ Compiled(b, Due(b)).build = BuildId(b)
    BY <1>3, <2>3, CompiledIs DEF Compiled
  <2>5. /\ rows'[b] \in Seq(Artifacts)
        /\ \A i \in DOMAIN rows'[b] : rows'[b][i].build = BuildId(b)
    <3> DEFINE a == Compiled(b, Due(b))
               s == rows[b]
    <3>1. Append(s, a) \in Seq(Artifacts) /\ DOMAIN Append(s, a) = 1..(Len(s) + 1)
          /\ DOMAIN s = 1..Len(s) /\ Len(s) \in Nat
          /\ Append(s, a)[Len(s) + 1] = a /\ \A i \in 1..Len(s) : Append(s, a)[i] = s[i]
      <4> HIDE DEF a, s
      <4> QED
        BY <2>2, <2>4 DEF a, s
    <3> HIDE DEF a
    <3> QED
      BY <2>1, <2>2, <2>4, <3>1 DEF a
  <2> QED
    BY <1>1, <2>1, <2>5 DEF RowsOk, Indexed
<1> QED
  BY <1>2, <1>3 DEF Parse

\* Only the builder at hand compiles, and only before its index.
LEMMA BuilderKeepsRows ==
  ASSUME BundleInv, RowsInv, NEW b \in Builders, BuildStep(b) \/ Killed(b)
  PROVE  RowsInv'
<1>1. UNCHANGED content
  BY DEF BuildStep, Killed, Scan, Recheck, Parse, Truncate, WriteManifest, LookForIndex, Unlink,
    Connect, CreateTables, Commit, TakeSum
<1>2. /\ token' \in [Builders -> [Files -> Contents \cup {0}]]
      /\ declared' \in [Builders -> [Files -> 0..2]]
  <2>1. CASE Scan(b)
    <3>1. content \in [Files -> Contents \cup {0}] /\ Declarations \subseteq [Files -> 0..2]
      BY SeedAssumption DEF RowsInv
    <3> QED
      BY <2>1, <3>1 DEF Scan, RowsInv
  <2>2. CASE ~Scan(b)
    <3>1. UNCHANGED <<token, declared>>
      BY <2>2 DEF BuildStep, Killed, Recheck, Parse, Truncate, WriteManifest, LookForIndex, Unlink,
        Connect, CreateTables, Commit, TakeSum
    <3> QED
      BY <3>1 DEF RowsInv
  <2> QED
    BY <2>1, <2>2
<1>3. ASSUME NEW x \in Builders \ {b} PROVE RowsOk(x)'
  <2>1. building'[x] = building[x]
    BY BuilderGoes
  <2>2. rows'[x] = rows[x] /\ token'[x] = token[x] /\ declared'[x] = declared[x]
    <3>1. CASE Scan(b)
      BY <1>3, <3>1 DEF Scan, BundleInv
    <3>2. CASE Parse(b)
      BY <1>3, <3>2 DEF Parse, BundleInv
    <3>3. CASE ~Scan(b) /\ ~Parse(b)
      BY <3>3 DEF BuildStep, Killed, Recheck, Truncate, WriteManifest, LookForIndex, Unlink,
        Connect, CreateTables, Commit, TakeSum
    <3> QED
      BY <3>1, <3>2, <3>3
  <2>3. Kept(x)' = Kept(x)
    BY <2>2 DEF Kept
  <2>4. BuildId(x)' = BuildId(x)
    BY <2>2, <2>3 DEF BuildId
  <2>5. RowsOk(x)
    BY DEF RowsInv
  <2> QED
    BY <2>1, <2>2, <2>3, <2>4, <2>5 DEF RowsOk, Ids
<1>4. RowsOk(b)'
  <2>1. CASE Scan(b)
    <3>1. building'[b] = "compiling" /\ rows'[b] = <<>>
      <4>1. building[b] = "idle" /\ UNCHANGED rows /\ Goes(b, "compiling")
        BY <2>1 DEF Scan, At
      <4> QED
        BY <4>1 DEF Goes, BundleInv, RowsInv, RowsOk
    <3> QED
      BY <3>1 DEF RowsOk, Indexed
  <2>2. CASE Parse(b)
    BY <2>2, ParseKeepsRows
  <2>3. CASE ~Scan(b) /\ ~Parse(b)
    <3>1. UNCHANGED <<rows, token, declared>>
      BY <2>3 DEF BuildStep, Killed, Recheck, Truncate, WriteManifest, LookForIndex, Unlink,
        Connect, CreateTables, Commit, TakeSum
    <3>2. Kept(b)' = Kept(b) /\ BuildId(b)' = BuildId(b)
      BY <3>1 DEF Kept, BuildId
    <3>3. /\ building'[b] # "idle"
          /\ building'[b] = "parsing" => Len(rows[b]) < Cardinality(Kept(b))
          /\ building'[b] \in Indexed => building[b] \in Indexed \/ IsInjective(Ids(rows[b]))
      <4>1. CASE Recheck(b)
        BY <4>1 DEF Recheck, Goes, Indexed, BundleInv
      <4>2. CASE Truncate(b) \/ WriteManifest(b) \/ LookForIndex(b)
        BY <4>2 DEF Truncate, WriteManifest, LookForIndex, At, Goes, Indexed, BundleInv
      <4>3. CASE Unlink(b) \/ Connect(b) \/ CreateTables(b) \/ Commit(b) \/ TakeSum(b) \/ Killed(b)
        BY <4>3 DEF Unlink, Connect, CreateTables, Commit, TakeSum, Killed, At, Goes, Indexed, BundleInv
      <4> QED
        BY <2>3, <4>1, <4>2, <4>3 DEF BuildStep
    <3>4. RowsOk(b)
      BY DEF RowsInv
    <3> QED
      BY <3>1, <3>2, <3>3, <3>4 DEF RowsOk, Ids
  <2> QED
    BY <2>1, <2>2, <2>3
<1>5. ASSUME NEW i \in Builders, NEW x \in Builders, file'[i].by = x PROVE IsInjective(Ids(rows[x]))'
  <2>1. building[x] \notin Compiling /\ IsInjective(Ids(rows[x]))
    <3>1. CASE file[i].by # None
      <4>1. file[i].by = x
        BY <1>5, <3>1, FilesGo
      <4> QED
        BY <4>1 DEF BundleInv, RowsInv
    <3>2. CASE file[i].by = None
      <4>1. file'[i].by # None
        BY <1>5, SeedAssumption
      <4>2. x = b /\ building[b] = "tables"
        BY <1>5, <3>2, <4>1, FilesGo
      <4>3. RowsOk(b)
        BY DEF RowsInv
      <4> QED
        BY <4>2, <4>3 DEF RowsOk, Indexed, Compiling
    <3> QED
      BY <3>1, <3>2
  <2>2. rows'[x] = rows[x]
    BY <2>1, CompiledStays
  <2> QED
    BY <2>1, <2>2 DEF Ids
<1> QED
  BY <1>1, <1>2, <1>3, <1>4, <1>5 DEF RowsInv

\* Nothing but a builder changes the rows.
LEMMA RowsStay ==
  ASSUME RowsInv, UNCHANGED <<build, disk>>, content' \in [Files -> Contents \cup {0}]
  PROVE  RowsInv'
<1>1. /\ token' = token /\ declared' = declared /\ rows' = rows /\ building' = building
      /\ file' = file
  BY DEF build, disk
<1>2. ASSUME NEW b \in Builders PROVE RowsOk(b)'
  <2>1. RowsOk(b) /\ Kept(b)' = Kept(b)
    BY <1>1 DEF RowsInv, Kept
  <2>2. BuildId(b)' = BuildId(b)
    BY <1>1, <2>1 DEF BuildId
  <2> QED
    BY <1>1, <2>1, <2>2 DEF RowsOk, Ids
<1>3. \A b \in Builders : IsInjective(Ids(rows[b]))' <=> IsInjective(Ids(rows[b]))
  BY <1>1 DEF Ids
<1> QED
  BY <1>1, <1>2, <1>3 DEF RowsInv

\* What a caller was shown is a prefix of the ranking of a builder that compiles no more,
\* and its cursor names those rows and the last item shown; without a cursor, it is all.
Shown(c, b) ==
  /\ building[b] \notin Compiling /\ Indexable(rows[b])
  /\ \/ cursor[c] = None /\ pages[c] = Ranked(rows[b])
     \/ /\ cursor[c] # None /\ cursor[c].digest = rows[b]
        /\ \E n \in 1..Len(rows[b]) :
             pages[c] = SubSeq(Ranked(rows[b]), 1, n) /\ cursor[c].last = Ranked(rows[b])[n]
PagesOf(c) ==
  \/ cursor[c] = None /\ pages[c] = <<>>
  \/ \E b \in Builders : Shown(c, b)
PagesInv ==
  /\ DOMAIN cursor = Callers /\ DOMAIN pages = Callers
  /\ Limit <= ListCap => \A c \in Callers : PagesOf(c)

\* What a call has open are the rows of one build with different ids.
LEMMA OpenIsIndexable ==
  ASSUME BundleInv, RowsInv, NEW c \in Callers, IsOpen(c)
  PROVE  \E x \in Builders :
           /\ building[x] \notin Compiling /\ Indexable(rows[x]) /\ Index(c) = rows[x]
           /\ opened[c].manifest.digest = rows[x] /\ opened[c].manifest.build = BuildId(x)
           /\ opened[c].manifest.ids = Ids(rows[x])
<1>1. opened[c].db \in Builders /\ Matches(c)
  BY DEF BundleInv
<1>2. PICK i \in Builders : i = opened[c].db
  BY <1>1
<1>3. file[i].by \in Builders
  BY <1>1, <1>2 DEF Matches, BundleInv
<1>4. PICK x \in Builders : x = file[i].by
  BY <1>3
<1>5. /\ building[x] \notin Compiling /\ IsInjective(Ids(rows[x])) /\ RowsOk(x)
  BY <1>4 DEF BundleInv, RowsInv
<1>6. Indexable(rows[x])
  BY <1>5 DEF Indexable, RowsOk
<1>7. Index(c) = rows[x] /\ BuildId(x) = opened[c].manifest.build
      /\ rows[x] = opened[c].manifest.digest /\ Ids(rows[x]) = opened[c].manifest.ids
  BY <1>1, <1>2, <1>4 DEF Matches, Index, RowsIn
<1> QED
  BY <1>5, <1>6, <1>7

LEMMA IdsAre ==
  ASSUME NEW rs \in Seq(Artifacts)
  PROVE  Ids(rs) \in Seq([content : Contents, level : 0..2, build : Builds])
<1> DEFINE T == [content : Contents, level : 0..2, build : Builds]
<1>1. Len(rs) \in Nat /\ DOMAIN rs = 1..Len(rs) /\ \A i \in 1..Len(rs) : rs[i] \in Artifacts
  BY LenProperties, ElementOfSeq
<1>2. \A i \in 1..Len(rs) : Id(rs[i]) \in T
  BY <1>1 DEF Id, Artifacts
<1>3. Ids(rs) = [i \in 1..Len(rs) |-> Id(rs[i])]
  BY <1>1 DEF Ids
<1>4. Ids(rs) \in [1..Len(rs) -> T]
  BY <1>2, <1>3
<1> HIDE DEF T
<1>5. Ids(rs) \in Seq(T)
  BY <1>1, <1>4
<1> QED
  BY <1>5 DEF T

\* The step to the next page, in a ranking of which n items were shown.
LEMMA NextPage ==
  ASSUME BundleInv, RowsInv, PagesInv, NEW c \in Callers, Limit <= ListCap,
         NEW x \in Builders, building[x] \notin Compiling, Indexable(rows[x]), UNCHANGED build,
         opened[c].manifest.digest = rows[x], opened[c].manifest.build = BuildId(x),
         opened[c].manifest.ids = Ids(rows[x]),
         NEW n \in 0..Len(rows[x]), NEW page,
         page = Prefix(SubSeq(Ranked(rows[x]), n + 1, Len(rows[x])), Limit),
         pages' = [pages EXCEPT ![c] = SubSeq(Ranked(rows[x]), 1, n) \o Prefix(page, ListCap)],
         cursor' = [cursor EXCEPT ![c] =
           IF Len(SubSeq(Ranked(rows[x]), n + 1, Len(rows[x]))) > Len(page) /\ page # <<>>
             THEN [build |-> opened[c].manifest.build, ids |-> opened[c].manifest.ids,
                   digest |-> opened[c].manifest.digest, last |-> page[Len(page)]]
             ELSE None]
  PROVE  Shown(c, x)'
<1> DEFINE R == Ranked(rows[x])
           m == Len(rows[x])
           left == SubSeq(R, n + 1, m)
           e == n + Len(page)
           C == [build |-> opened[c].manifest.build, ids |-> opened[c].manifest.ids,
                 digest |-> opened[c].manifest.digest, last |-> page[Len(page)]]
<1>1. R \in Seq(Artifacts) /\ Len(R) = m /\ rows[x] \in Seq(Artifacts) /\ m \in Nat
  <2>1. R \in Seq(Artifacts) /\ Len(R) = m /\ rows[x] \in Seq(Artifacts)
    BY RankedIs DEF Indexable
  <2> QED
    BY <2>1, LenProperties
<1>2. /\ Prefix(page, ListCap) = page
      /\ e \in n..m /\ Len(left) = m - n
      /\ SubSeq(R, 1, n) \o page = SubSeq(R, 1, e)
      /\ page # <<>> => e \in 1..m /\ page[Len(page)] = R[e]
      /\ page = <<>> => n = m
  <2> HIDE DEF R, m
  <2>1. n \in 0..Len(R) /\ page = Prefix(SubSeq(R, n + 1, Len(R)), Limit)
    BY <1>1 DEF R, m
  <2>2. /\ Prefix(page, ListCap) = page
        /\ n + Len(page) \in n..Len(R) /\ Len(SubSeq(R, n + 1, Len(R))) = Len(R) - n
        /\ SubSeq(R, 1, n) \o page = SubSeq(R, 1, n + Len(page))
        /\ page # <<>> => n + Len(page) \in 1..Len(R) /\ page[Len(page)] = R[n + Len(page)]
        /\ page = <<>> => n = Len(R)
    BY <1>1, <2>1, PageIs
  <2> QED
    BY <1>1, <2>2, Zenon
<1>3. /\ pages'[c] = SubSeq(R, 1, e)
      /\ cursor'[c] = IF Len(left) > Len(page) /\ page # <<>> THEN C ELSE None
  <2> HIDE DEF R, left, C
  <2> QED
    BY <1>2 DEF PagesInv, R, left, C
<1>4. rows' = rows /\ building' = building
  BY DEF build
<1>5. Ranked(rows[x])' = R /\ Indexable(rows[x])' /\ building'[x] \notin Compiling
  <2>1. Ranked(rows[x])' = R
    <3>1. PICK rs : rs = rows[x]
      OBVIOUS
    <3>2. rows'[x] = rs
      BY <1>4, <3>1
    <3>3. Ranked(rows[x])' = Ranked(rs)
      BY <3>2
    <3> QED
      BY <3>1, <3>3
  <2>2. Indexable(rows[x])'
    BY <1>4 DEF Indexable, Ids
  <2> QED
    BY <1>4, <2>1, <2>2
<1>6. CASE Len(left) > Len(page) /\ page # <<>>
  <2>1. cursor'[c] = C
    BY <1>3, <1>6
  <2>2. R[e] \in Artifacts
    <3> HIDE DEF R, m, e
    <3> QED
      BY <1>1, <1>2, <1>6, ElementOfSeq
  <2>3. C \in Cursors
    <3>1. BuildId(x) \in Builds /\ Ids(rows[x]) \in Seq([content : Contents, level : 0..2, build : Builds])
      BY <1>1, BuildsAre, IdsAre
    <3>2. page[Len(page)] \in Artifacts
      BY <1>2, <1>6, <2>2
    <3> QED
      BY <1>1, <3>1, <3>2 DEF Cursors
  <2>4. C # None
    BY <2>3, SeedAssumption
  <2>5. C.digest = rows[x] /\ C.last = R[e] /\ e \in 1..m
    BY <1>2, <1>6
  <2>6. \E k \in 1..m : pages'[c] = SubSeq(R, 1, k) /\ cursor'[c].last = R[k]
    <3> HIDE DEF C, R, m, e
    <3> QED
      BY <1>3, <2>1, <2>5
  <2> QED
    BY <1>4, <1>5, <2>1, <2>4, <2>5, <2>6 DEF Shown
<1>7. CASE ~(Len(left) > Len(page) /\ page # <<>>)
  <2>1. cursor'[c] = None
    BY <1>3, <1>7
  <2>2. e = m
    <3>1. CASE page = <<>>
      BY <1>1, <1>2, <3>1
    <3>2. CASE ~(Len(left) > Len(page))
      <4>1. Len(page) \in Nat
        BY <1>2
      <4> HIDE DEF left
      <4> QED
        BY <1>1, <1>2, <3>2, <4>1
    <3> QED
      BY <1>7, <3>1, <3>2
  <2>3. SubSeq(R, 1, m) = R
    <3> HIDE DEF R, m
    <3> QED
      BY <1>1
  <2>4. pages'[c] = R
    BY <1>3, <2>2, <2>3
  <2> QED
    BY <1>5, <2>1, <2>4 DEF Shown
<1> QED
  BY <1>6, <1>7

\* What is shown stays shown as long as the rows stay.
LEMMA ShownStays ==
  ASSUME NEW d \in Callers, NEW b \in Builders, Shown(d, b), building'[b] \notin Compiling,
         rows'[b] = rows[b], pages'[d] = pages[d], cursor'[d] = cursor[d]
  PROVE  Shown(d, b)'
<1>1. PICK rs : rs = rows[b]
  OBVIOUS
<1>2. Ranked(rows[b])' = Ranked(rs) /\ Ranked(rows[b]) = Ranked(rs)
  <2>1. rows'[b] = rs
    BY <1>1
  <2> QED
    BY <1>1, <2>1
<1>3. Indexable(rows[b])'
  BY DEF Shown, Indexable, Ids
<1> QED
  BY <1>2, <1>3 DEF Shown

\* A search shows the next page, the first one, or nothing after a refused cursor.
LEMMA SearchKeepsPages ==
  ASSUME BundleInv, RowsInv, PagesInv, NEW c \in Callers, Search(c)
  PROVE  PagesInv'
<1>1. /\ UNCHANGED build /\ IsOpen(c)
      /\ \A d \in Callers \ {c} : pages'[d] = pages[d] /\ cursor'[d] = cursor[d]
      /\ DOMAIN cursor' = Callers /\ DOMAIN pages' = Callers
  BY DEF Search, On, IsOpen, PagesInv
<1>2. rows' = rows /\ building' = building
  BY <1>1 DEF build
<1> SUFFICES ASSUME Limit <= ListCap PROVE \A d \in Callers : PagesOf(d)'
  BY <1>1 DEF PagesInv
<1>3. ASSUME NEW d \in Callers \ {c} PROVE PagesOf(d)'
  <2>1. PagesOf(d)
    BY DEF PagesInv
  <2>2. CASE cursor[d] = None /\ pages[d] = <<>>
    BY <1>1, <2>2 DEF PagesOf
  <2>3. CASE \E b \in Builders : Shown(d, b)
    <3>1. PICK b \in Builders : Shown(d, b)
      BY <2>3
    <3>2. building'[b] \notin Compiling
      BY <1>2, <3>1 DEF Shown
    <3>3. Shown(d, b)'
      BY <1>1, <1>2, <3>1, <3>2, ShownStays
    <3> QED
      BY <3>3 DEF PagesOf
  <2> QED
    BY <2>1, <2>2, <2>3 DEF PagesOf
<1>4. PagesOf(c)'
  <2>1. PICK x \in Builders :
          /\ building[x] \notin Compiling /\ Indexable(rows[x]) /\ Index(c) = rows[x]
          /\ opened[c].manifest.digest = rows[x] /\ opened[c].manifest.build = BuildId(x)
          /\ opened[c].manifest.ids = Ids(rows[x])
    BY <1>1, OpenIsIndexable
  <2> DEFINE R == Ranked(rows[x])
             m == Len(rows[x])
             left == IF cursor[c] = None THEN R ELSE Remaining(R, cursor[c].last)
             before == IF cursor[c] = None THEN <<>> ELSE pages[c]
  <2>2. R \in Seq(Artifacts) /\ Len(R) = m /\ m \in Nat
    <3>1. R \in Seq(Artifacts) /\ Len(R) = m
      BY <2>1, RankedIs
    <3> QED
      BY <3>1, LenProperties
  <2>3. CASE cursor[c] # None /\ ~CursorFits(c)
    <3>1. cursor' = [cursor EXCEPT ![c] = None] /\ pages' = [pages EXCEPT ![c] = <<>>]
      BY <2>3 DEF Search
    <3> QED
      BY <3>1 DEF PagesInv, PagesOf
  <2>4. CASE ~(cursor[c] # None /\ ~CursorFits(c))
    <3>1. \E n \in 0..m : left = SubSeq(R, n + 1, m) /\ before = SubSeq(R, 1, n)
      <4>1. CASE cursor[c] = None
        <5>1. SubSeq(R, 0 + 1, m) = R /\ SubSeq(R, 1, 0) = <<>> /\ 0 \in 0..m
          <6> HIDE DEF R, m
          <6> QED
            BY <2>2
        <5> QED
          BY <4>1, <5>1
      <4>2. CASE cursor[c] # None
        <5>1. PICK b \in Builders : Shown(c, b)
          BY <4>2 DEF PagesInv, PagesOf
        <5>2. rows[b] = rows[x]
          BY <2>1, <2>4, <4>2, <5>1 DEF Shown, CursorFits
        <5>3. PICK n \in 1..m : pages[c] = SubSeq(R, 1, n) /\ cursor[c].last = R[n]
          BY <4>2, <5>1, <5>2 DEF Shown
        <5>4. Remaining(R, R[n]) = SubSeq(R, n + 1, m)
          BY <2>1, RemainingIs
        <5>5. n \in 0..m
          BY <2>2
        <5> QED
          BY <4>2, <5>3, <5>4, <5>5
      <4> QED
        BY <4>1, <4>2
    <3>2. PICK n \in 0..m : left = SubSeq(R, n + 1, m) /\ before = SubSeq(R, 1, n)
      BY <3>1
    <3>3. PICK page : page = Prefix(left, Limit)
      OBVIOUS
    <3>4. /\ pages' = [pages EXCEPT ![c] = before \o Prefix(page, ListCap)]
          /\ cursor' = [cursor EXCEPT ![c] =
               IF Len(left) > Len(page) /\ page # <<>>
                 THEN [build |-> opened[c].manifest.build, ids |-> opened[c].manifest.ids,
                       digest |-> opened[c].manifest.digest, last |-> page[Len(page)]]
                 ELSE None]
      BY <2>1, <2>4, <3>3 DEF Search
    <3>5. Shown(c, x)'
      <4> HIDE DEF left, before
      <4>1. page = Prefix(SubSeq(Ranked(rows[x]), n + 1, Len(rows[x])), Limit)
        BY <3>2, <3>3
      <4>2. pages' = [pages EXCEPT ![c] = SubSeq(Ranked(rows[x]), 1, n) \o Prefix(page, ListCap)]
        BY <3>2, <3>4
      <4>3. cursor' = [cursor EXCEPT ![c] =
              IF Len(SubSeq(Ranked(rows[x]), n + 1, Len(rows[x]))) > Len(page) /\ page # <<>>
                THEN [build |-> opened[c].manifest.build, ids |-> opened[c].manifest.ids,
                      digest |-> opened[c].manifest.digest, last |-> page[Len(page)]]
                ELSE None]
        BY <3>2, <3>4
      <4> QED
        BY <1>1, <2>1, <4>1, <4>2, <4>3, NextPage
    <3> QED
      BY <3>5 DEF PagesOf
  <2> QED
    BY <2>3, <2>4
<1> QED
  BY <1>3, <1>4

\* Steps of others: what is shown was compiled.
LEMMA OthersKeepPages ==
  ASSUME PagesInv, UNCHANGED search,
         \A b \in Builders : building[b] \notin Compiling =>
           building'[b] \notin Compiling /\ rows'[b] = rows[b]
  PROVE  PagesInv'
<1>1. pages' = pages /\ cursor' = cursor
  BY DEF search
<1>2. ASSUME NEW d \in Callers, PagesOf(d) PROVE PagesOf(d)'
  <2>1. CASE cursor[d] = None /\ pages[d] = <<>>
    BY <1>1, <2>1 DEF PagesOf
  <2>2. CASE \E b \in Builders : Shown(d, b)
    <3>1. PICK b \in Builders : Shown(d, b)
      BY <2>2
    <3>2. building'[b] \notin Compiling /\ rows'[b] = rows[b]
      BY <3>1 DEF Shown
    <3>3. Shown(d, b)'
      BY <1>1, <3>1, <3>2, ShownStays
    <3> QED
      BY <3>3 DEF PagesOf
  <2> QED
    BY <1>2, <2>1, <2>2 DEF PagesOf
<1> QED
  BY <1>1, <1>2 DEF PagesInv

LEMMA InitPages == Init => PagesInv
<1> SUFFICES ASSUME Init PROVE PagesInv
  OBVIOUS
<1>1. cursor = [c \in Callers |-> None] /\ pages = [c \in Callers |-> <<>>]
  BY DEF Init, SeedInit
<1> QED
  BY <1>1 DEF PagesInv, PagesOf

\* Every step keeps rows and pages.
LEMMA PagesKept == BundleInv /\ RowsInv /\ PagesInv /\ [Next]_vars => RowsInv' /\ PagesInv'
<1> SUFFICES ASSUME BundleInv, RowsInv, PagesInv, [Next]_vars PROVE RowsInv' /\ PagesInv'
  OBVIOUS
<1>1. CASE \E b \in Builders : BuildStep(b) \/ Killed(b)
  <2>1. PICK b \in Builders : BuildStep(b) \/ Killed(b)
    BY <1>1
  <2>2. UNCHANGED search
    BY <2>1 DEF BuildStep, Killed, Scan, Recheck, Parse, Truncate, WriteManifest, LookForIndex,
      Unlink, Connect, CreateTables, Commit, TakeSum, search
  <2>3. ASSUME NEW x \in Builders, building[x] \notin Compiling
        PROVE  building'[x] \notin Compiling /\ rows'[x] = rows[x]
    <3>1. building'[x] \notin Compiling
      BY <2>1, <2>3, BuilderGoes
    <3> QED
      BY <2>1, <2>3, <3>1, CompiledStays
  <2> QED
    BY <2>1, <2>2, <2>3, BuilderKeepsRows, OthersKeepPages
<1>2. CASE UNCHANGED <<build, disk, search>> /\ content' \in [Files -> Contents \cup {0}]
  <2>1. RowsInv'
    BY <1>2, RowsStay
  <2>2. \A b \in Builders : building'[b] = building[b] /\ rows'[b] = rows[b]
    BY <1>2 DEF build
  <2> QED
    BY <1>2, <2>1, <2>2, OthersKeepPages
<1>3. content \in [Files -> Contents \cup {0}]
  BY DEF RowsInv
<1>4. CASE UserRewrites
  <2>1. UNCHANGED <<build, disk, search>> /\ content' \in [Files -> Contents \cup {0}]
    BY <1>3, <1>4 DEF UserRewrites
  <2> QED
    BY <1>2, <2>1
<1>5. CASE \E c \in Callers : OpenStep(c)
  <2>1. UNCHANGED <<content, build, disk, search>>
    BY <1>5 DEF OpenStep, ReadManifest, CompareSum, ConnectReadonly, Validate
  <2> QED
    BY <1>2, <1>3, <2>1
<1>6. CASE \E c \in Callers : Search(c)
  <2>1. PICK c \in Callers : Search(c)
    BY <1>6
  <2>2. UNCHANGED <<content, build, disk>>
    BY <2>1 DEF Search
  <2>3. RowsInv'
    BY <1>3, <2>2, RowsStay
  <2> QED
    BY <2>1, <2>3, SearchKeepsPages
<1>7. CASE \E c \in Callers : GenerateStep(c)
  <2>1. UNCHANGED <<content, build, disk, search>>
    BY <1>7 DEF GenerateStep, Generate, AskProvider, ProviderFails, ProviderOffers, PutLooks, OpensTmp,
      Fills, Replaces, CallKilled
  <2> QED
    BY <1>2, <1>3, <2>1
<1>8. CASE UNCHANGED vars
  <2>1. UNCHANGED <<content, build, disk, search>>
    BY <1>8 DEF vars, seedVars
  <2> QED
    BY <1>2, <1>3, <2>1
<1>9. CASE SeedStep
  BY <1>1, <1>4, <1>5, <1>6, <1>9, GenerateAssumption DEF SeedStep
<1> QED
  BY <1>7, <1>8, <1>9 DEF Next

\* For rankings, pages and limits of any length: who pages through a request is shown the
\* ranking of one bundle from its first item, in its order and none twice, to the end if
\* no cursor is left, whatever is built, killed and rewritten between two pages (search.py
\* search, encode_cursor).
THEOREM PagesCover == Spec => []PagesCoverRanking
<1>1. PagesInv => PagesCoverRanking
  <2> SUFFICES ASSUME PagesInv, NEW c \in Callers, pages[c] # <<>>, Limit <= ListCap
      PROVE  \E b \in Builders :
               pages[c] = IF cursor[c] = None THEN Ranked(rows[b])
                          ELSE Prefix(Ranked(rows[b]), Len(pages[c]))
    BY DEF PagesCoverRanking
  <2>1. PICK b \in Builders : Shown(c, b)
    BY DEF PagesInv, PagesOf
  <2>2. CASE cursor[c] = None
    BY <2>1, <2>2 DEF Shown
  <2>3. CASE cursor[c] # None
    <3> DEFINE R == Ranked(rows[b])
    <3>1. R \in Seq(Artifacts) /\ Len(R) = Len(rows[b])
      BY <2>1, RankedIs DEF Shown
    <3>2. Len(R) \in Nat
      BY <3>1, LenProperties
    <3>3. PICK n \in 1..Len(rows[b]) : pages[c] = SubSeq(R, 1, n)
      BY <2>1, <2>3 DEF Shown
    <3> HIDE DEF R
    <3>4. n \in Nat /\ n <= Len(R)
      BY <3>1, <3>2, <3>3
    <3>5. Len(pages[c]) = n
      BY <3>1, <3>3, <3>4
    <3>6. Prefix(R, n) = SubSeq(R, 1, n)
      <4>1. Len(R) < n \/ (IF Len(R) < n THEN Len(R) ELSE n) = n
        OBVIOUS
      <4> QED
        BY <3>2, <3>4, <4>1 DEF Prefix
    <3> QED
      BY <2>1, <2>3, <3>3, <3>5, <3>6 DEF R
  <2> QED
    BY <2>2, <2>3
<1>2. BundleInv /\ RowsInv /\ PagesInv /\ [Next]_vars => BundleInv' /\ RowsInv' /\ PagesInv'
  BY BundleKept, PagesKept
<1> QED
  BY InitBundle, InitRows, InitPages, <1>1, <1>2, PTL DEF Spec
==============================================================================
