------------------------------ MODULE ToolsProofs ------------------------------
(***************************************************************************)
(* The server's tools: one project directory for any number of calls, and  *)
(* one device chain of any length for any number of calls and edits; and   *)
(* the acceptance runner that tries them, for any selection and any number *)
(* of calls that fail.                                                     *)
(***************************************************************************)
EXTENDS ExtensionTools, Acceptance, FiniteSetTheorems, SequenceTheorems, WellFoundedInduction, TLAPS

Range4 == 1..4
\* Where a call is, what it returns, and how much it has written.
CallsInv ==
  /\ DOMAIN at = Calls /\ DOMAIN outcome = Calls /\ DOMAIN reply = Calls
  /\ written \in [Calls -> 0..4]
  /\ edits \in Nat /\ disturbed \subseteq Calls
  /\ project = None \/ project \in [ProjectFiles -> Calls \cup {None}]
  /\ \A c \in Calls :
       /\ outcome[c] = "scaffolded" => at[c] = "done"
       /\ at[c] = "project" => written[c] = 0
       /\ at[c] = "write" => written[c] < 4
       /\ reply[c] # "scaffolded"

\* One call writes, and the files that are there are its own.
OwnFiles(c) == project # None /\ \A f \in ProjectFiles : project[f] \in {c, None}
WritersInv ==
  disturbed = {} =>
    /\ \A c \in Calls : at[c] = "write" =>
         /\ OwnFiles(c)
         /\ \A k \in Range4 : k <= written[c] => project[FileOrder[k]] = c
    /\ \A c, d \in Calls : at[c] = "write" /\ at[d] = "write" => c = d
    /\ project # None => \E c \in Calls : OwnFiles(c)
    /\ bundle # None => \E c \in Calls : bundle = {c}

\* Nobody but the user takes away what was scaffolded.
ScaffoldedInv ==
  edits = 0 => disturbed = {} /\ \A c \in Calls : outcome[c] = "scaffolded" =>
    project # None /\ \A f \in ProjectFiles : project[f] = c
ProjectInv == CallsInv /\ WritersInv /\ ScaffoldedInv

LEMMA FourFiles ==
  /\ ProjectFiles = {FileOrder[k] : k \in Range4} /\ Len(FileOrder) = 4
  /\ \A k \in Range4 : FileOrder[k] \in ProjectFiles
BY DEF ProjectFiles, FileOrder, ToSet, Range4

LEMMA InitProject == Init => ProjectInv
<1> SUFFICES ASSUME Init PROVE ProjectInv
  OBVIOUS
<1>1. at \in [Calls -> {"load", "project", "done"}]
  BY ToolsAssumption DEF Init
<1>2. None # "scaffolded"
  BY ToolsAssumption DEF Outcomes
<1> QED
  BY <1>1, <1>2 DEF Init, ProjectInv, CallsInv, WritersInv, ScaffoldedInv

\* A step that writes no file, and after which nobody writes who did not.
LEMMA ElsewhereKeeps ==
  ASSUME ProjectInv, NEW c \in Calls, UNCHANGED <<edits, written, project, disturbed>>,
         DOMAIN at' = Calls, DOMAIN outcome' = Calls,
         \A d \in Calls \ {c} : at'[d] = at[d] /\ outcome'[d] = outcome[d],
         at'[c] \in {"project", "write"} => at'[c] = at[c],
         outcome'[c] = "scaffolded" => outcome'[c] = outcome[c] /\ at'[c] = at[c],
         DOMAIN reply' = Calls, \A d \in Calls : reply'[d] # "scaffolded",
         \/ UNCHANGED bundle
         \/ disturbed = {} => \E d \in Calls : bundle' = {d}
  PROVE  ProjectInv'
<1>1. \A d \in Calls : OwnFiles(d)' = OwnFiles(d)
  BY DEF OwnFiles
<1>2. \A d \in Calls : /\ at'[d] \in {"project", "write"} => at'[d] = at[d]
                       /\ outcome'[d] = "scaffolded" => outcome'[d] = outcome[d] /\ at'[d] = at[d]
  OBVIOUS
<1>3. CallsInv'
  BY <1>2 DEF ProjectInv, CallsInv
<1>4. WritersInv'
  BY <1>1, <1>2 DEF ProjectInv, WritersInv
<1>5. ScaffoldedInv'
  BY <1>2 DEF ProjectInv, ScaffoldedInv
<1> QED
  BY <1>3, <1>4, <1>5 DEF ProjectInv

LEMMA LoadKeepsProject ==
  ASSUME ProjectInv, NEW c \in Calls, LoadStep(c)
  PROVE  ProjectInv'
<1>1. UNCHANGED <<edits, written, project, disturbed, bundle>>
  BY DEF LoadStep, AsksBrowser, ReadsChain, Sends, HandlerChecks, LiveInserts, Receives, GivesUp, files
<1>2. DOMAIN reply = Calls /\ \A d \in Calls : reply[d] # "scaffolded"
  BY DEF ProjectInv, CallsInv
<1>3. \/ UNCHANGED reply
      \/ \E what \in Answers : reply' = [reply EXCEPT ![c] = what]
  BY DEF LoadStep, AsksBrowser, ReadsChain, Sends, HandlerChecks, LiveInserts, Receives, GivesUp,
    Replies, Answers, device
<1>4. DOMAIN reply' = Calls /\ \A d \in Calls : reply'[d] # "scaffolded"
  BY <1>2, <1>3 DEF Answers
<1>5. \/ UNCHANGED <<at, outcome>>
      \/ UNCHANGED outcome /\ \E where \in {"send", "chain", "waiting"} : Steps(c, where)
      \/ \E what \in {"bridge_error", "bad_input", "unavailable", reply[c]} : Returns(c, what)
  BY DEF LoadStep, AsksBrowser, ReadsChain, Sends, HandlerChecks, LiveInserts, Receives, GivesUp,
    ScriptFails
<1>6. /\ DOMAIN at' = Calls /\ DOMAIN outcome' = Calls
      /\ \A d \in Calls \ {c} : at'[d] = at[d] /\ outcome'[d] = outcome[d]
      /\ at'[c] \in {"project", "write"} => at'[c] = at[c]
  BY <1>5 DEF Steps, Returns, ProjectInv, CallsInv
<1>7. outcome'[c] = "scaffolded" => outcome'[c] = outcome[c] /\ at'[c] = at[c]
  <2>1. CASE UNCHANGED <<at, outcome>>
    BY <2>1
  <2>2. CASE UNCHANGED outcome /\ at # at'
    <3>1. at[c] # "done"
      BY <2>2 DEF LoadStep, AsksBrowser, ReadsChain, Sends, HandlerChecks, LiveInserts, Receives,
        GivesUp, On
    <3> QED
      BY <2>2, <3>1 DEF ProjectInv, CallsInv
  <2>3. CASE \E what \in {"bridge_error", "bad_input", "unavailable", reply[c]} : Returns(c, what)
    BY <1>2, <2>3 DEF Returns, ProjectInv, CallsInv
  <2> QED
    BY <1>5, <2>1, <2>2, <2>3
<1> QED
  BY <1>1, <1>4, <1>6, <1>7, ElsewhereKeeps

LEMMA ScaffoldsKeepsProject ==
  ASSUME ProjectInv, NEW c \in Calls, Scaffolds(c)
  PROVE  ProjectInv'
<1> USE DEF ProjectInv, CallsInv
<1>1. UNCHANGED <<edits, written, disturbed, bundle, reply>> /\ at[c] = "project"
  BY DEF Scaffolds, On, device
<1>2. CASE Returns(c, "error") /\ UNCHANGED project
  BY <1>1, <1>2, ElsewhereKeeps DEF Returns, Steps
<1>3. CASE Returns(c, "exists") /\ UNCHANGED project
  BY <1>1, <1>3, ElsewhereKeeps DEF Returns, Steps
<1>4. CASE project = None /\ project' = NoFiles /\ Steps(c, "write") /\ UNCHANGED outcome
  <2>1. /\ at' = [at EXCEPT ![c] = "write"] /\ written'[c] = 0 /\ outcome'[c] # "scaffolded"
        /\ project' \in [ProjectFiles -> {None}] /\ edits' = edits
    BY <1>1, <1>4 DEF Steps, NoFiles
  <2>2. project' # None /\ \A f \in ProjectFiles : project'[f] = None
    BY <2>1, ToolsAssumption
  <2>3. \A d \in Calls : OwnFiles(d)'
    BY <2>2 DEF OwnFiles
  <2>4. disturbed = {} => \A d \in Calls : at[d] # "write"
    BY <1>4 DEF WritersInv, OwnFiles
  <2>5. WritersInv'
    BY <1>1, <2>1, <2>3, <2>4 DEF WritersInv, Range4
  <2>6. CallsInv'
    BY <1>1, <1>4, <2>1
  <2>7. ScaffoldedInv'
    BY <1>1, <1>4, <2>1 DEF ScaffoldedInv
  <2> QED
    BY <2>5, <2>6, <2>7
<1> QED
  BY <1>2, <1>3, <1>4 DEF Scaffolds, MakesDirectory

LEMMA WritesKeepsProject ==
  ASSUME ProjectInv, NEW c \in Calls, Writes(c)
  PROVE  ProjectInv'
<1> USE DEF ProjectInv, CallsInv
<1>1. UNCHANGED <<edits, disturbed, bundle, reply>> /\ at[c] = "write" /\ outcome[c] # "scaffolded"
  BY DEF Writes, On, device
<1>2. CASE Returns(c, "raised") /\ UNCHANGED <<project, written>>
  BY <1>1, <1>2, ElsewhereKeeps DEF Returns, Steps
<1>3. CASE /\ project # None /\ written' = [written EXCEPT ![c] = @ + 1]
           /\ project' = [project EXCEPT ![FileOrder[written'[c]]] = c]
           /\ IF written'[c] = Len(FileOrder) THEN Returns(c, "scaffolded") ELSE UNCHANGED <<at, outcome>>
  <2>1. PICK n \in Range4 : n = written[c] + 1
    BY <1>1 DEF Range4
  <2>2. /\ written'[c] = n /\ FileOrder[n] \in ProjectFiles
        /\ written' \in [Calls -> 0..4] /\ \A d \in Calls \ {c} : written'[d] = written[d]
    BY <1>3, <2>1, FourFiles DEF Range4
  <2>3. /\ project \in [ProjectFiles -> Calls \cup {None}]
        /\ project' = [project EXCEPT ![FileOrder[n]] = c]
    BY <1>3, <2>2
  <2>4. /\ project' \in [ProjectFiles -> Calls \cup {None}] /\ project' # None
        /\ project'[FileOrder[n]] = c
        /\ \A f \in ProjectFiles : project'[f] = c \/ project'[f] = project[f]
    BY <2>2, <2>3, ToolsAssumption
  <2>5. \/ n = 4 /\ Returns(c, "scaffolded")
        \/ n < 4 /\ UNCHANGED <<at, outcome>>
    BY <1>3, <2>2, FourFiles DEF Range4
  <2>6. /\ DOMAIN at' = Calls /\ DOMAIN outcome' = Calls
        /\ \A d \in Calls \ {c} : at'[d] = at[d] /\ outcome'[d] = outcome[d]
        /\ \/ n = 4 /\ at'[c] = "done" /\ outcome'[c] = "scaffolded"
           \/ n < 4 /\ at'[c] = "write" /\ outcome'[c] = outcome[c]
    BY <1>1, <2>5 DEF Returns, Steps
  <2>7. CallsInv'
    <3>1. ASSUME NEW d \in Calls
          PROVE  /\ outcome'[d] = "scaffolded" => at'[d] = "done"
                 /\ at'[d] = "project" => written'[d] = 0
                 /\ at'[d] = "write" => written'[d] < 4
      BY <1>1, <2>2, <2>6
    <3> QED
      BY <1>1, <2>2, <2>4, <2>6, <3>1
  <2>8. ASSUME disturbed = {}
        PROVE  /\ OwnFiles(c)' /\ \A k \in Range4 : k <= written'[c] => project'[FileOrder[k]] = c
               /\ \A d \in Calls : at[d] = "write" => d = c
    <3>1. /\ OwnFiles(c) /\ \A k \in Range4 : k <= written[c] => project[FileOrder[k]] = c
          /\ \A d \in Calls : at[d] = "write" => d = c
      BY <1>1, <2>8 DEF WritersInv
    <3>2. OwnFiles(c)'
      BY <2>4, <3>1 DEF OwnFiles
    <3>3. \A k \in Range4 : k <= n => k <= written[c] \/ k = n
      BY <2>1 DEF Range4
    <3>4. \A k \in Range4 : k <= n => project'[FileOrder[k]] = c
      BY <2>4, <3>1, <3>3, FourFiles
    <3> QED
      BY <2>2, <3>1, <3>2, <3>4
  <2>9. WritersInv'
    <3>1. \A d \in Calls : at'[d] = "write" => at[d] = "write"
      BY <1>1, <2>6
    <3> QED
      BY <1>1, <2>8, <3>1 DEF WritersInv
  <2>10. ScaffoldedInv'
    <3>1. CASE edits # 0
      BY <1>1, <3>1 DEF ScaffoldedInv
    <3>2. CASE edits = 0
      <4>1. disturbed = {}
        BY <3>2 DEF ScaffoldedInv
      <4>2. ASSUME NEW d \in Calls, d # c, outcome[d] = "scaffolded" PROVE FALSE
        <5>1. \A f \in ProjectFiles : project[f] = d /\ project[f] \in {c, None}
          BY <1>1, <3>2, <4>1, <4>2 DEF ScaffoldedInv, WritersInv, OwnFiles
        <5> QED
          BY <2>2, <4>2, <5>1, ToolsAssumption
      <4>3. ASSUME outcome'[c] = "scaffolded" PROVE \A f \in ProjectFiles : project'[f] = c
        <5>1. n = 4
          BY <1>1, <2>6, <4>3
        <5>2. \A k \in Range4 : project'[FileOrder[k]] = c
          BY <2>2, <2>8, <4>1, <5>1 DEF Range4
        <5> QED
          BY <5>2, FourFiles
      <4> QED
        BY <1>1, <2>4, <2>6, <4>1, <4>2, <4>3 DEF ScaffoldedInv
    <3> QED
      BY <3>1, <3>2
  <2> QED
    BY <2>7, <2>9, <2>10
<1> QED
  BY <1>2, <1>3 DEF Writes

LEMMA BuildKeepsProject ==
  ASSUME ProjectInv, NEW c \in Calls, BuildBegins(c) \/ Installs(c) \/ Builds(c)
  PROVE  ProjectInv'
<1> USE DEF ProjectInv, CallsInv
<1>1. /\ UNCHANGED <<edits, written, project, disturbed, reply>>
      /\ at[c] \in {"project", "install", "build"} /\ outcome[c] # "scaffolded"
  BY DEF BuildBegins, Installs, Builds, On, device, files
<1>2. \/ UNCHANGED bundle
      \/ disturbed = {} => \E d \in Calls : bundle' = {d}
  <2> SUFFICES ASSUME disturbed = {}, Builds(c), project # None,
                      \A f \in ProjectFiles : project[f] # None,
                      bundle' = {project[f] : f \in ProjectFiles}
               PROVE  \E d \in Calls : bundle' = {d}
    BY DEF BuildBegins, Installs, Builds, files
  <2>1. PICK d \in Calls : OwnFiles(d)
    BY DEF WritersInv
  <2>2. \A f \in ProjectFiles : project[f] = d
    BY <2>1 DEF OwnFiles
  <2>3. ProjectFiles # {}
    BY FourFiles DEF Range4
  <2> QED
    BY <2>2, <2>3
<1>3. \/ UNCHANGED outcome /\ \E where \in {"install", "build"} : Steps(c, where)
      \/ \E what \in {"no_package", "error", "raised", "built"} : Returns(c, what)
  BY DEF BuildBegins, Installs, Builds
<1>4. /\ DOMAIN at' = Calls /\ DOMAIN outcome' = Calls
      /\ \A d \in Calls \ {c} : at'[d] = at[d] /\ outcome'[d] = outcome[d]
      /\ at'[c] \notin {"project", "write"} /\ outcome'[c] # "scaffolded"
  BY <1>1, <1>3 DEF Steps, Returns
<1> QED
  BY <1>1, <1>2, <1>4, ElsewhereKeeps

LEMMA UserKeepsProject ==
  ASSUME ProjectInv, UserRemovesProject \/ UserEditsChain
  PROVE  ProjectInv'
<1> USE DEF ProjectInv, CallsInv
<1>1. UNCHANGED <<at, outcome, written, reply>> /\ edits' = edits + 1
  BY DEF UserRemovesProject, UserEditsChain, device, files
<1>2. CASE UserRemovesProject
  <2>1. /\ project' = None /\ bundle' = None /\ disturbed' \subseteq Calls
        /\ disturbed' = {} => \A d \in Calls : at[d] # "write"
    BY <1>2 DEF UserRemovesProject
  <2> QED
    BY <1>1, <2>1 DEF WritersInv, ScaffoldedInv
<1>3. CASE UserEditsChain
  <2>1. UNCHANGED <<project, bundle, disturbed>>
    BY <1>3 DEF UserEditsChain, files
  <2>2. \A d \in Calls : OwnFiles(d)' = OwnFiles(d)
    BY <2>1 DEF OwnFiles
  <2>3. WritersInv'
    BY <1>1, <2>1, <2>2 DEF WritersInv
  <2>4. ScaffoldedInv' /\ CallsInv'
    BY <1>1, <2>1 DEF ScaffoldedInv
  <2> QED
    BY <2>3, <2>4
<1> QED
  BY <1>2, <1>3

LEMMA ProjectStays == ProjectInv /\ [Next]_vars => ProjectInv'
<1> SUFFICES ASSUME ProjectInv, [Next]_vars PROVE ProjectInv'
  OBVIOUS
<1>1. CASE UNCHANGED vars
  <2>1. UNCHANGED <<at, outcome, edits, written, project, bundle, disturbed, reply>>
    BY <1>1 DEF vars, device, files
  <2>2. \A d \in Calls : OwnFiles(d)' = OwnFiles(d)
    BY <2>1 DEF OwnFiles
  <2> QED
    BY <2>1, <2>2 DEF ProjectInv, CallsInv, WritersInv, ScaffoldedInv
<1> QED
  BY <1>1, LoadKeepsProject, ScaffoldsKeepsProject, WritesKeepsProject, BuildKeepsProject,
    UserKeepsProject DEF Next, ProjectStep

\* However many calls scaffold and build one directory at a time, a project that was
\* scaffolded has its files from one call, and so has a bundle, unless the user has removed
\* the directory under one of them. (server.py scaffold_extension, build_extension)
THEOREM OneProject == Spec => []ProjectOfOneCall
<1>1. ASSUME ProjectInv PROVE ProjectOfOneCall
  <2> SUFFICES ASSUME disturbed = {}
      PROVE  /\ project # None => Cardinality({project[f] : f \in ProjectFiles} \ {None}) <= 1
             /\ bundle # None => Cardinality(bundle) = 1
             /\ \A c \in Calls : outcome[c] = "scaffolded" /\ project # None =>
                  \/ \A f \in ProjectFiles : project[f] = c
                  \/ edits > 0
    BY DEF ProjectOfOneCall
  <2>1. ASSUME project # None
        PROVE  Cardinality({project[f] : f \in ProjectFiles} \ {None}) <= 1
    <3>1. PICK c \in Calls : OwnFiles(c)
      BY <1>1, <2>1 DEF ProjectInv, WritersInv
    <3>2. \/ {project[f] : f \in ProjectFiles} \ {None} = {}
          \/ {project[f] : f \in ProjectFiles} \ {None} = {c}
      BY <3>1 DEF OwnFiles
    <3> QED
      BY <3>2, FS_EmptySet, FS_Singleton
  <2>2. bundle # None => Cardinality(bundle) = 1
    BY <1>1, FS_Singleton DEF ProjectInv, WritersInv
  <2>3. edits = 0 \/ edits > 0
    BY <1>1 DEF ProjectInv, CallsInv
  <2> QED
    BY <1>1, <2>1, <2>2, <2>3 DEF ProjectInv, ScaffoldedInv
<1> QED
  BY InitProject, ProjectStays, <1>1, PTL DEF Spec

(***************************************************************************)
(* Where a device goes.                                                    *)
(***************************************************************************)
LEMMA LeastNat ==
  ASSUME NEW T \in SUBSET Nat, T # {}
  PROVE  \E x \in T : \A y \in T : x <= y
<1>1. PICK x \in T : \A y \in T : ~(<<y, x>> \in OpToRel(<, Nat))
  BY NatLessThanWellFounded, WFMin, Zenon
<1>2. \A y \in T : ~(y < x)
  BY <1>1 DEF OpToRel
<1> QED
  BY <1>2

LEMMA FirstOfIsFirst ==
  ASSUME NEW n \in Nat, NEW types, DOMAIN types = 1..n, Len(types) = n, NEW kinds
  PROVE  /\ FirstOf(types, kinds) \in 0..n
         /\ \A j \in 1..n : j <= FirstOf(types, kinds) => types[j] \notin kinds
         /\ FirstOf(types, kinds) < n => types[FirstOf(types, kinds) + 1] \in kinds
<1> DEFINE found == {i \in 1..n : types[i] \in kinds}
           least == CHOOSE i \in found : \A j \in found : i <= j
<1>1. CASE found = {}
  <2>1. FirstOf(types, kinds) = n
    BY <1>1 DEF FirstOf
  <2> QED
    BY <1>1, <2>1
<1>2. CASE found # {}
  <2>1. found \in SUBSET Nat
    OBVIOUS
  <2>2. \E i \in found : \A j \in found : i <= j
    BY <1>2, <2>1, LeastNat
  <2>3. least \in found /\ \A j \in found : least <= j
    BY <2>2
  <2>4. FirstOf(types, kinds) = least - 1
    BY <1>2 DEF FirstOf
  <2> HIDE DEF least
  <2>5. least \in 1..n /\ types[least] \in kinds
    BY <2>3
  <2>6. \A j \in 1..n : j <= least - 1 => j \notin found
    BY <2>3, <2>5
  <2> QED
    BY <2>4, <2>5, <2>6
<1> QED
  BY <1>1, <1>2

LEMMA InsertAtIs ==
  ASSUME NEW devices \in Seq(Roles), NEW p \in 0..Len(devices), NEW kind \in Roles
  PROVE  /\ InsertAt(devices, p + 1, kind) \in Seq(Roles)
         /\ Len(InsertAt(devices, p + 1, kind)) = Len(devices) + 1
         /\ \A j \in 1..p : InsertAt(devices, p + 1, kind)[j] = devices[j]
         /\ InsertAt(devices, p + 1, kind)[p + 1] = kind
         /\ \A j \in (p + 1)..Len(devices) : InsertAt(devices, p + 1, kind)[j + 1] = devices[j]
<1> DEFINE n == Len(devices)
           front == SubSeq(devices, 1, p)
           back == SubSeq(devices, p + 1, n)
           all == (front \o <<kind>>) \o back
<1>1. n \in Nat /\ p \in Nat /\ p <= n /\ devices \in [1..n -> Roles]
  OBVIOUS
<1>2. InsertAt(devices, p + 1, kind) = all
  <2>1. (p + 1) - 1 = p
    BY <1>1
  <2> QED
    BY <2>1, Zenon DEF InsertAt
<1>3. front \in Seq(Roles) /\ Len(front) = p /\ \A j \in 1..p : front[j] = devices[j]
  BY <1>1
<1>4. back \in Seq(Roles) /\ Len(back) = n - p /\ \A j \in 1..(n - p) : back[j] = devices[p + j]
  <2>1. p + 1 \in 1..(n + 1) /\ n \in (p + 1) - 1..n
    BY <1>1
  <2>2. \A S : \A s \in Seq(S) : \A l \in 1..(Len(s) + 1) : \A r \in (l - 1)..Len(s) :
          /\ SubSeq(s, l, r) \in Seq(S) /\ Len(SubSeq(s, l, r)) = r - l + 1
          /\ \A i \in 1..(r - l + 1) : SubSeq(s, l, r)[i] = s[l + i - 1]
    BY SubSeqProperties
  <2>3. /\ back \in Seq(Roles) /\ Len(back) = n - (p + 1) + 1
        /\ \A i \in 1..(n - (p + 1) + 1) : back[i] = devices[(p + 1) + i - 1]
    BY <2>1, <2>2, Zenon
  <2>4. n - (p + 1) + 1 = n - p /\ \A i \in 1..(n - p) : (p + 1) + i - 1 = p + i
    BY <1>1
  <2> QED
    BY <2>3, <2>4
<1> HIDE DEF front, back
<1>5. /\ front \o <<kind>> \in Seq(Roles) /\ Len(front \o <<kind>>) = p + 1
      /\ \A j \in 1..p : (front \o <<kind>>)[j] = devices[j]
      /\ (front \o <<kind>>)[p + 1] = kind
  BY <1>1, <1>3
<1>6. /\ all \in Seq(Roles) /\ Len(all) = n + 1
      /\ \A j \in 1..(p + 1) : all[j] = (front \o <<kind>>)[j]
      /\ \A j \in 1..(n - p) : all[p + 1 + j] = back[j]
  <2> DEFINE first == front \o <<kind>>
  <2>1. first \in Seq(Roles) /\ Len(first) = p + 1
    BY <1>5
  <2> HIDE DEF first
  <2>2. first \o back \in Seq(Roles) /\ Len(first \o back) = (p + 1) + (n - p)
    <3>1. first \o back \in Seq(Roles) /\ Len(first \o back) = Len(first) + Len(back)
      BY <1>4, <2>1, ConcatProperties
    <3> QED
      BY <1>4, <2>1, <3>1
  <2>3. \A i \in 1..((p + 1) + (n - p)) :
          (first \o back)[i] = IF i <= p + 1 THEN first[i] ELSE back[i - (p + 1)]
    <3>1. \A S : \A s1, s2 \in Seq(S) : \A i \in 1..(Len(s1) + Len(s2)) :
            (s1 \o s2)[i] = IF i <= Len(s1) THEN s1[i] ELSE s2[i - Len(s1)]
      BY ConcatProperties
    <3> QED
      BY <1>4, <2>1, <3>1
  <2>4. /\ \A j \in 1..(p + 1) : (first \o back)[j] = first[j]
        /\ \A j \in 1..(n - p) : (first \o back)[p + 1 + j] = back[j]
    <3>1. \A j \in 1..(n - p) : /\ p + 1 + j \in 1..((p + 1) + (n - p))
                               /\ ~(p + 1 + j <= p + 1) /\ (p + 1 + j) - (p + 1) = j
      BY <1>1
    <3>2. \A j \in 1..(p + 1) : j \in 1..((p + 1) + (n - p)) /\ j <= p + 1
      BY <1>1
    <3> QED
      BY <2>3, <3>1, <3>2
  <2>5. (p + 1) + (n - p) = n + 1
    BY <1>1
  <2> QED
    BY <2>2, <2>4, <2>5 DEF first
<1>7. ASSUME NEW j \in (p + 1)..n PROVE all[j + 1] = devices[j]
  <2>1. j - p \in 1..(n - p) /\ p + 1 + (j - p) = j + 1 /\ p + (j - p) = j
    BY <1>1
  <2>2. all[p + 1 + (j - p)] = devices[p + (j - p)]
    BY <1>4, <1>6, <2>1
  <2> QED
    BY <2>1, <2>2
<1> HIDE DEF all
<1>8. \A j \in 1..p : all[j] = devices[j]
  <2>1. \A j \in 1..p : j \in 1..(p + 1)
    BY <1>1
  <2> QED
    BY <1>5, <1>6, <2>1, Zenon
<1>9. all[p + 1] = kind
  BY <1>1, <1>5, <1>6
<1> QED
  BY <1>2, <1>6, <1>7, <1>8, <1>9

\* Of two devices, d may stand before e.
Fits(d, e) == Rank[d] <= Rank[e] /\ ~(d = "instrument" /\ e = "instrument")

LEMMA OrderedInsert ==
  ASSUME NEW devices \in Seq(Roles), NEW p \in 0..Len(devices), NEW kind \in Roles
  PROVE  Ordered(InsertAt(devices, p + 1, kind)) <=>
           /\ Ordered(devices)
           /\ \A j \in DOMAIN devices : IF j <= p THEN Fits(devices[j], kind) ELSE Fits(kind, devices[j])
<1> DEFINE n == Len(devices)
           all == InsertAt(devices, p + 1, kind)
           at_(j) == IF j <= p THEN j ELSE j + 1
<1>1. n \in Nat /\ p \in 0..n /\ DOMAIN devices = 1..n
  OBVIOUS
<1>2. all \in Seq(Roles) /\ Len(all) = n + 1 /\ all[p + 1] = kind
  BY InsertAtIs
<1>3. \A j \in 1..n : at_(j) \in 1..(n + 1) /\ all[at_(j)] = devices[j]
  <2> SUFFICES ASSUME NEW j \in 1..n PROVE at_(j) \in 1..(n + 1) /\ all[at_(j)] = devices[j]
    OBVIOUS
  <2>1. CASE j <= p
    <3>1. j \in 1..p /\ j \in 1..(n + 1)
      BY <1>1, <2>1
    <3>2. all[j] = devices[j]
      BY <3>1, InsertAtIs
    <3> QED
      BY <2>1, <3>1, <3>2
  <2>2. CASE j > p
    <3>1. j \in (p + 1)..n
      BY <1>1, <2>2
    <3>2. all[j + 1] = devices[j]
      BY <3>1, InsertAtIs
    <3> QED
      BY <1>1, <2>2, <3>2
  <2> QED
    BY <1>1, <2>1, <2>2
<1>4. DOMAIN all = 1..(n + 1)
  BY <1>1, <1>2
<1> HIDE DEF all
<1>5. Ordered(all) <=> \A i, j \in 1..(n + 1) : i < j => Fits(all[i], all[j])
  BY <1>4 DEF Ordered, Fits
<1>6. Ordered(devices) <=> \A i, j \in 1..n : i < j => Fits(devices[i], devices[j])
  BY <1>1 DEF Ordered, Fits
<1>7. ASSUME Ordered(all)
      PROVE  /\ Ordered(devices)
             /\ \A j \in 1..n : IF j <= p THEN Fits(devices[j], kind) ELSE Fits(kind, devices[j])
  <2>1. ASSUME NEW i \in 1..n, NEW j \in 1..n, i < j PROVE Fits(devices[i], devices[j])
    <3>1. at_(i) < at_(j)
      BY <1>1, <2>1
    <3> QED
      BY <1>3, <1>5, <1>7, <3>1
  <2>2. ASSUME NEW j \in 1..n, j <= p PROVE Fits(devices[j], kind)
    <3>1. at_(j) < p + 1 /\ p + 1 \in 1..(n + 1)
      BY <1>1, <2>2
    <3> QED
      BY <1>2, <1>3, <1>5, <1>7, <3>1
  <2>3. ASSUME NEW j \in 1..n, ~(j <= p) PROVE Fits(kind, devices[j])
    <3>1. p + 1 < at_(j) /\ p + 1 \in 1..(n + 1)
      BY <1>1, <2>3
    <3> QED
      BY <1>2, <1>3, <1>5, <1>7, <3>1
  <2> QED
    BY <1>6, <2>1, <2>2, <2>3
<1>8. ASSUME Ordered(devices),
             \A j \in 1..n : IF j <= p THEN Fits(devices[j], kind) ELSE Fits(kind, devices[j])
      PROVE  Ordered(all)
  <2>1. ASSUME NEW i \in 1..(n + 1) PROVE i = p + 1 \/ \E k \in 1..n : i = at_(k)
    <3>1. CASE i <= p
      BY <1>1, <3>1
    <3>2. CASE i > p + 1
      <4>1. i - 1 \in 1..n /\ ~(i - 1 <= p) /\ (i - 1) + 1 = i
        BY <1>1, <3>2
      <4> QED
        BY <4>1
    <3> QED
      BY <1>1, <3>1, <3>2
  <2>2. ASSUME NEW i \in 1..(n + 1), NEW j \in 1..(n + 1), i < j PROVE Fits(all[i], all[j])
    <3>1. CASE i = p + 1
      <4>1. PICK l \in 1..n : j = at_(l)
        BY <1>1, <2>1, <2>2, <3>1
      <4>2. ~(l <= p)
        BY <1>1, <2>2, <3>1, <4>1
      <4> QED
        BY <1>2, <1>3, <1>8, <3>1, <4>1, <4>2
    <3>2. CASE j = p + 1
      <4>1. PICK k \in 1..n : i = at_(k)
        BY <1>1, <2>1, <2>2, <3>2
      <4>2. k <= p
        BY <1>1, <2>2, <3>2, <4>1
      <4> QED
        BY <1>2, <1>3, <1>8, <3>2, <4>1, <4>2
    <3>3. CASE i # p + 1 /\ j # p + 1
      <4>1. PICK k \in 1..n : i = at_(k)
        BY <2>1, <3>3
      <4>2. PICK l \in 1..n : j = at_(l)
        BY <2>1, <3>3
      <4>3. k < l
        BY <1>1, <2>2, <4>1, <4>2
      <4> QED
        BY <1>3, <1>6, <1>8, <4>1, <4>2, <4>3
    <3> QED
      BY <3>1, <3>2, <3>3
  <2> QED
    BY <1>5, <2>2
<1> QED
  BY <1>1, <1>7, <1>8 DEF all

LEMMA FitsIs ==
  \A d, e \in Roles : Fits(d, e) <=> d = "midi_effect" \/ e = "audio_effect"
<1>1. Rank["midi_effect"] = 1 /\ Rank["instrument"] = 2 /\ Rank["audio_effect"] = 3
  BY DEF Rank, Roles
<1> QED
  BY <1>1 DEF Fits, Roles

\* The index that is computed is the last place that Live allows, if there is any.
LEMMA IndexIsBest ==
  ASSUME NEW devices \in Seq(Roles), NEW kind \in Roles, typed \/ kind # "instrument",
         NEW i \in Places(devices, kind)
  PROVE  /\ InsertIndex(kind, Types(devices)) \in Places(devices, kind)
         /\ typed => i <= InsertIndex(kind, Types(devices))
<1> DEFINE n == Len(devices)
           q == InsertIndex(kind, Types(devices))
           Stands(p) == \A j \in 1..n : IF j <= p THEN Fits(devices[j], kind) ELSE Fits(kind, devices[j])
<1>1. n \in Nat /\ DOMAIN devices = 1..n /\ \A j \in 1..n : devices[j] \in Roles
  OBVIOUS
<1>2. /\ kind # None /\ (OnAudio => kind = "audio_effect") /\ i \in 0..n
      /\ Ordered(InsertAt(devices, i + 1, kind))
  BY DEF Places, Allows
<1>3. Ordered(devices) /\ Stands(i)
  BY <1>1, <1>2, OrderedInsert
<1>4. ASSUME q \in 0..n, Stands(q) PROVE q \in Places(devices, kind)
  <2>1. Ordered(InsertAt(devices, q + 1, kind))
    BY <1>1, <1>3, <1>4, OrderedInsert
  <2> QED
    BY <1>2, <1>4, <2>1 DEF Places, Allows
<1>5. CASE kind = "audio_effect"
  <2>1. Len(Types(devices)) = n
    BY <1>1 DEF Types
  <2>2. q = n
    BY <1>5, <2>1 DEF InsertIndex
  <2>3. Stands(n)
    <3>1. ASSUME NEW j \in 1..n PROVE j <= n /\ Fits(devices[j], kind)
      <4>1. devices[j] \in Roles /\ j <= n
        BY <1>1
      <4> QED
        BY <1>5, <4>1, FitsIs, Zenon
    <3> QED
      BY <3>1
  <2>4. q \in Places(devices, kind)
    <3> HIDE DEF q, Stands
    <3> QED
      BY <1>1, <1>4, <2>2, <2>3
  <2> QED
    BY <1>1, <1>2, <2>2, <2>4
<1>6. CASE kind # "audio_effect"
  <2> DEFINE kinds == IF kind = "midi_effect" THEN {"instrument", "audio_effect", "undefined"}
                      ELSE {"audio_effect"}
             types == Types(devices)
  <2>1. DOMAIN types = 1..n /\ Len(types) = n
    BY <1>1 DEF Types
  <2>2. q = FirstOf(types, kinds)
    BY <1>6 DEF InsertIndex, Roles
  <2>3. /\ q \in 0..n /\ \A j \in 1..n : j <= q => types[j] \notin kinds
        /\ q < n => types[q + 1] \in kinds
    BY <1>1, <2>1, <2>2, FirstOfIsFirst
  <2>4. CASE typed
    <3>1. types = devices
      BY <2>4 DEF Types
    <3> HIDE DEF q, types
    <3>2. i <= q
      <4>1. CASE q < n /\ q < i
        <5>1. q + 1 \in 1..n /\ q + 1 <= i
          BY <1>1, <1>2, <2>3, <4>1
        <5>2. Fits(devices[q + 1], kind)
          BY <1>3, <5>1
        <5>3. devices[q + 1] = "midi_effect" /\ devices[q + 1] \in kinds
          BY <1>1, <1>6, <2>3, <3>1, <4>1, <5>1, <5>2, FitsIs
        <5> QED
          BY <5>3
      <4> QED
        BY <1>1, <1>2, <2>3, <4>1
    <3>3. Stands(q)
      <4>1. CASE kind = "midi_effect"
        <5>1. ASSUME NEW j \in 1..n, j <= q PROVE devices[j] = "midi_effect"
          BY <1>1, <2>3, <3>1, <4>1, <5>1 DEF Roles
        <5> QED
          BY <1>1, <4>1, <5>1, FitsIs
      <4>2. CASE kind = "instrument"
        <5>1. ASSUME NEW j \in 1..n, j <= q PROVE Fits(devices[j], kind)
          <6>1. devices[j] # "audio_effect"
            BY <2>3, <3>1, <4>2, <5>1
          <6>2. devices[j] # "instrument"
            BY <1>1, <1>3, <4>2, FitsIs
          <6> QED
            BY <1>1, <6>1, <6>2, FitsIs DEF Roles
        <5>2. ASSUME NEW j \in 1..n, ~(j <= q) PROVE Fits(kind, devices[j])
          <6>1. q + 1 \in 1..n /\ q < n /\ (j = q + 1 \/ q + 1 < j)
            BY <1>1, <2>3, <5>2
          <6>2. devices[q + 1] = "audio_effect"
            BY <2>3, <3>1, <4>2, <6>1
          <6>3. devices[j] = "audio_effect"
            <7>1. q + 1 < j => Fits(devices[q + 1], devices[j])
              BY <1>1, <1>3, <6>1 DEF Ordered, Fits
            <7> QED
              BY <1>1, <6>1, <6>2, <7>1, FitsIs
          <6> QED
            BY <1>1, <6>3, FitsIs
        <5> QED
          BY <5>1, <5>2
      <4> QED
        BY <1>6, <4>1, <4>2 DEF Roles
    <3>4. q \in Places(devices, kind)
      <4> HIDE DEF Stands
      <4> QED
        BY <1>4, <2>3, <3>3
    <3> QED
      BY <3>2, <3>4 DEF q
  <2>5. CASE ~typed
    <3>1. kind = "midi_effect" /\ \A j \in 1..n : types[j] = "undefined"
      BY <1>1, <1>6, <2>5 DEF Types, Roles
    <3> HIDE DEF q, types
    <3>2. q = 0
      <4>1. CASE 1 <= q
        <5>1. 1 \in 1..n
          BY <1>1, <2>3, <4>1
        <5> QED
          BY <2>3, <3>1, <4>1, <5>1
      <4> QED
        BY <1>1, <2>3, <4>1
    <3>3. Stands(q)
      <4>1. ASSUME NEW j \in 1..n PROVE ~(j <= q) /\ Fits(kind, devices[j])
        <5>1. devices[j] \in Roles /\ ~(j <= q)
          BY <1>1, <3>2
        <5> QED
          BY <3>1, <5>1, FitsIs, Zenon
      <4> QED
        BY <4>1
    <3>4. q \in Places(devices, kind)
      <4> HIDE DEF Stands
      <4> QED
        BY <1>4, <2>3, <3>3
    <3> QED
      BY <2>5, <3>4 DEF q
  <2> QED
    BY <2>4, <2>5
<1> QED
  BY <1>5, <1>6

\* What is asked of the extension is the index that was computed for the chain as it was read.
Computed(c) == read[c] \in Seq(Roles) /\ place[c] = InsertIndex(role[c], Types(read[c]))
LoadInv ==
  /\ DOMAIN at = Calls /\ DOMAIN role = Calls /\ DOMAIN read = Calls /\ DOMAIN place = Calls
  /\ DOMAIN handling = Calls /\ DOMAIN reply = Calls /\ DOMAIN outcome = Calls
  /\ chain \in Seq(Roles)
  /\ \A c \in Calls :
       /\ role[c] \in Roles \cup {None} /\ reply[c] # "bad_input"
       /\ at[c] = "chain" => role[c] \in Roles
       /\ at[c] \in {"load", "chain", "send"} => handling[c] \notin {"received", "inserting"}
       /\ role[c] \in Roles /\ (at[c] = "send" \/ handling[c] \in {"received", "inserting"}) =>
            Computed(c)

LEMMA InitLoad == Init => LoadInv
<1> SUFFICES ASSUME Init PROVE LoadInv
  OBVIOUS
<1>1. at \in [Calls -> {"load", "project", "done"}] /\ chain \in Seq(Roles)
  BY ToolsAssumption DEF Init
<1>2. None \notin {"received", "inserting", "bad_input"} \cup Roles
  BY ToolsAssumption DEF Outcomes, Handled
<1> QED
  BY <1>1, <1>2 DEF Init, LoadInv

\* A call elsewhere, or a user, that leaves the requests alone.
LEMMA OthersKeepLoad ==
  ASSUME LoadInv, UNCHANGED <<role, read, place, handling, reply, typed>>, chain' \in Seq(Roles),
         DOMAIN at' = Calls, DOMAIN outcome' = Calls,
         \A d \in Calls : at'[d] = at[d] \/ at'[d] \notin {"load", "chain", "send"}
  PROVE  LoadInv'
<1>1. \A d \in Calls : Computed(d)' = Computed(d)
  BY DEF Computed, Types
<1> QED
  BY <1>1 DEF LoadInv

\* The request of one call goes on.
LEMMA OneKeepsLoad ==
  ASSUME LoadInv, NEW c \in Calls, UNCHANGED typed, chain' \in Seq(Roles),
         DOMAIN at' = Calls, DOMAIN role' = Calls, DOMAIN read' = Calls, DOMAIN place' = Calls,
         DOMAIN handling' = Calls, DOMAIN reply' = Calls, DOMAIN outcome' = Calls,
         \A d \in Calls \ {c} : /\ at'[d] = at[d] /\ role'[d] = role[d] /\ read'[d] = read[d]
                                /\ place'[d] = place[d] /\ handling'[d] = handling[d]
                                /\ reply'[d] = reply[d],
         role'[c] \in Roles \cup {None}, reply'[c] # "bad_input",
         at'[c] = "chain" => role'[c] \in Roles,
         at'[c] \in {"load", "chain", "send"} => handling'[c] \notin {"received", "inserting"},
         role'[c] \in Roles /\ (at'[c] = "send" \/ handling'[c] \in {"received", "inserting"}) =>
           Computed(c)'
  PROVE  LoadInv'
<1>1. \A d \in Calls \ {c} : Computed(d)' = Computed(d)
  BY DEF Computed, Types
<1>2. ASSUME NEW d \in Calls, d # c
      PROVE  /\ role'[d] \in Roles \cup {None} /\ reply'[d] # "bad_input"
             /\ at'[d] = "chain" => role'[d] \in Roles
             /\ at'[d] \in {"load", "chain", "send"} => handling'[d] \notin {"received", "inserting"}
             /\ role'[d] \in Roles /\ (at'[d] = "send" \/ handling'[d] \in {"received", "inserting"})
                  => Computed(d)'
  BY <1>1, <1>2 DEF LoadInv
<1> QED
  BY <1>2 DEF LoadInv

LEMMA AskKeepsLoad ==
  ASSUME LoadInv, NEW c \in Calls, AsksBrowser(c) \/ ReadsChain(c) \/ Sends(c)
  PROVE  LoadInv'
<1> USE DEF LoadInv
<1>1. UNCHANGED <<chain, typed, reply>>
  BY DEF AsksBrowser, ReadsChain, Sends
<1>2. CASE AsksBrowser(c)
  <2>1. /\ \E r \in Roles \cup {None} : role' = [role EXCEPT ![c] = r]
        /\ UNCHANGED <<read, place, handling>> /\ at[c] = "load"
    BY <1>2 DEF AsksBrowser, On
  <2>2. \/ Steps(c, "send") /\ role'[c] = None /\ UNCHANGED outcome
        \/ Steps(c, "chain") /\ role'[c] # None /\ UNCHANGED outcome
        \/ Returns(c, "bridge_error")
    BY <1>2 DEF AsksBrowser, ScriptFails
  <2>3. /\ DOMAIN at' = Calls /\ DOMAIN outcome' = Calls
        /\ \A d \in Calls \ {c} : at'[d] = at[d]
        /\ \/ at'[c] = "send" /\ role'[c] = None
           \/ at'[c] = "chain" /\ role'[c] # None
           \/ at'[c] = "done"
    BY <2>2 DEF Steps, Returns
  <2>4. None \notin Roles
    BY ToolsAssumption
  <2>5. /\ DOMAIN role' = Calls /\ role'[c] \in Roles \cup {None}
        /\ \A d \in Calls \ {c} : role'[d] = role[d]
    BY <2>1
  <2> QED
    BY <1>1, <2>1, <2>3, <2>4, <2>5, OneKeepsLoad
<1>3. CASE ReadsChain(c)
  <2>1. /\ read' = [read EXCEPT ![c] = chain] /\ UNCHANGED <<role, handling>>
        /\ at[c] = "chain" /\ role[c] \in Roles
    BY <1>3 DEF ReadsChain, On
  <2>2. \/ (Returns(c, "bridge_error") \/ Returns(c, "bad_input")) /\ UNCHANGED place
        \/ /\ place' = [place EXCEPT ![c] = InsertIndex(role[c], Types(chain))]
           /\ Steps(c, "send") /\ UNCHANGED outcome
    BY <1>3 DEF ReadsChain, ScriptFails
  <2>3. /\ DOMAIN at' = Calls /\ DOMAIN outcome' = Calls /\ DOMAIN place' = Calls
        /\ \A d \in Calls \ {c} : at'[d] = at[d] /\ place'[d] = place[d]
        /\ \/ at'[c] = "done"
           \/ at'[c] = "send" /\ place'[c] = InsertIndex(role[c], Types(chain))
    BY <2>2 DEF Steps, Returns
  <2>4. /\ DOMAIN read' = Calls /\ read'[c] = chain
        /\ \A d \in Calls \ {c} : read'[d] = read[d]
    BY <2>1
  <2>5. at'[c] = "send" => Computed(c)'
    BY <1>1, <2>1, <2>3, <2>4 DEF Computed, InsertIndex, Types
  <2> QED
    BY <1>1, <2>1, <2>3, <2>4, <2>5, OneKeepsLoad
<1>4. CASE Sends(c)
  <2>1. /\ at[c] = "send" /\ UNCHANGED <<role, read, place>>
        /\ \/ Returns(c, "unavailable") /\ UNCHANGED handling
           \/ Steps(c, "waiting") /\ handling' = [handling EXCEPT ![c] = "received"] /\ UNCHANGED outcome
    BY <1>4 DEF Sends, On
  <2>2. /\ DOMAIN at' = Calls /\ DOMAIN outcome' = Calls /\ DOMAIN handling' = Calls
        /\ \A d \in Calls \ {c} : at'[d] = at[d] /\ handling'[d] = handling[d]
        /\ at'[c] \in {"done", "waiting"}
    BY <2>1 DEF Steps, Returns
  <2>3. Computed(c)' = Computed(c)
    BY <1>1, <2>1 DEF Computed, Types
  <2> QED
    BY <1>1, <2>1, <2>2, <2>3, OneKeepsLoad
<1> QED
  BY <1>2, <1>3, <1>4

LEMMA AllowedInserts ==
  ASSUME NEW devices \in Seq(Roles), NEW kind \in Roles \cup {None}, NEW p, Allows(devices, kind, p)
  PROVE  InsertAt(devices, p + 1, kind) \in Seq(Roles)
BY InsertAtIs DEF Allows

LEMMA HandleKeepsLoad ==
  ASSUME LoadInv, NEW c \in Calls, HandlerChecks(c) \/ LiveInserts(c)
  PROVE  LoadInv'
<1> USE DEF LoadInv
<1>1. /\ UNCHANGED <<at, role, read, typed, outcome>> /\ at[c] \notin {"load", "chain", "send"}
  BY DEF HandlerChecks, LiveInserts
<1>2. CASE HandlerChecks(c)
  <2>1. /\ handling[c] = "received" /\ UNCHANGED chain
        /\ place' = [place EXCEPT ![c] = IF place[c] = None THEN Len(chain) ELSE place[c]]
        /\ \/ Replies(c, "invalid_params")
           \/ handling' = [handling EXCEPT ![c] = "inserting"] /\ UNCHANGED reply
    BY <1>2 DEF HandlerChecks
  <2>2. /\ DOMAIN place' = Calls /\ DOMAIN handling' = Calls /\ DOMAIN reply' = Calls
        /\ \A d \in Calls \ {c} :
             place'[d] = place[d] /\ handling'[d] = handling[d] /\ reply'[d] = reply[d]
        /\ reply'[c] # "bad_input"
    BY <2>1 DEF Replies
  <2>3. ASSUME role[c] \in Roles PROVE Computed(c)'
    <3>1. Computed(c)
      BY <2>1, <2>3
    <3>2. place[c] \in Nat
      <4> DEFINE n == Len(read[c])
      <4>1. n \in Nat /\ DOMAIN Types(read[c]) = 1..n /\ Len(Types(read[c])) = n
        BY <3>1 DEF Computed, Types
      <4>2. \A kinds : FirstOf(Types(read[c]), kinds) \in 0..n
        BY <4>1, FirstOfIsFirst
      <4> HIDE DEF n
      <4>3. InsertIndex(role[c], Types(read[c])) \in 0..n
        BY <4>1, <4>2 DEF InsertIndex
      <4> QED
        BY <3>1, <4>1, <4>3 DEF Computed
    <3>3. place'[c] = place[c]
      BY <2>1, <3>2, ToolsAssumption
    <3> QED
      BY <1>1, <3>1, <3>3 DEF Computed, Types
  <2> QED
    BY <1>1, <2>1, <2>2, <2>3, OneKeepsLoad
<1>3. CASE LiveInserts(c)
  <2>1. /\ handling[c] = "inserting" /\ UNCHANGED place
        /\ \/ /\ Allows(chain, role[c], place[c])
              /\ chain' = InsertAt(chain, place[c] + 1, role[c]) /\ Replies(c, "loaded")
           \/ Replies(c, "refused") /\ UNCHANGED chain
    BY <1>3 DEF LiveInserts
  <2>2. chain' \in Seq(Roles)
    BY <2>1, AllowedInserts
  <2>3. /\ DOMAIN handling' = Calls /\ DOMAIN reply' = Calls
        /\ \A d \in Calls \ {c} : handling'[d] = handling[d] /\ reply'[d] = reply[d]
        /\ reply'[c] # "bad_input" /\ handling'[c] = "answered"
    BY <2>1 DEF Replies
  <2> QED
    BY <1>1, <2>1, <2>2, <2>3, OneKeepsLoad
<1> QED
  BY <1>2, <1>3

LEMMA RestKeepsLoad ==
  ASSUME LoadInv, Next, \A c \in Calls : ~(AsksBrowser(c) \/ ReadsChain(c) \/ Sends(c)
                                           \/ HandlerChecks(c) \/ LiveInserts(c))
  PROVE  LoadInv'
<1> USE DEF LoadInv
<1>1. CASE UserEditsChain
  <2>1. UNCHANGED <<at, role, read, place, handling, reply, typed, outcome>>
    BY <1>1 DEF UserEditsChain
  <2>2. chain' \in Seq(Roles)
    <3>1. ASSUME NEW k \in DOMAIN chain, chain' = RemoveAt(chain, k) PROVE chain' \in Seq(Roles)
      <4> DEFINE front == SubSeq(chain, 1, k - 1)
                 back == SubSeq(chain, k + 1, Len(chain))
      <4>1. k \in 1..Len(chain) /\ Len(chain) \in Nat /\ \A j \in 1..Len(chain) : chain[j] \in Roles
        BY <3>1
      <4>2. front \in Seq(Roles) /\ back \in Seq(Roles)
        <5>1. \A S : \A s \in Seq(S) : \A l \in 1..(Len(s) + 1) : \A r \in (l - 1)..Len(s) :
                SubSeq(s, l, r) \in Seq(S)
          BY SubSeqProperties
        <5>2. /\ 1 \in 1..(Len(chain) + 1) /\ k - 1 \in (1 - 1)..Len(chain)
              /\ k + 1 \in 1..(Len(chain) + 1) /\ Len(chain) \in ((k + 1) - 1)..Len(chain)
          BY <4>1
        <5> QED
          BY <5>1, <5>2, Zenon
      <4>3. front \o back \in Seq(Roles)
        <5> HIDE DEF front, back
        <5> QED
          BY <4>2
      <4> QED
        BY <3>1, <4>3 DEF RemoveAt
    <3>2. ASSUME NEW r \in Roles, NEW i, Allows(chain, r, i), chain' = InsertAt(chain, i + 1, r)
          PROVE  chain' \in Seq(Roles)
      BY <3>2, AllowedInserts
    <3> QED
      BY <1>1, <3>1, <3>2 DEF UserEditsChain
  <2> QED
    BY <2>1, <2>2, OthersKeepLoad
<1>2. CASE UserRemovesProject
  <2>1. UNCHANGED <<at, role, read, place, handling, reply, typed, chain, outcome>>
    BY <1>2 DEF UserRemovesProject, device
  <2> QED
    BY <2>1, OthersKeepLoad
<1>3. ASSUME NEW c \in Calls, Receives(c) \/ GivesUp(c) \/ ProjectStep(c) PROVE LoadInv'
  <2>1. UNCHANGED <<role, read, place, handling, reply, typed, chain>>
    BY <1>3 DEF Receives, GivesUp, ProjectStep, Scaffolds, Writes, BuildBegins, Installs, Builds, device
  <2>2. \/ UNCHANGED <<at, outcome>>
        \/ UNCHANGED outcome /\ \E where \in {"write", "install", "build"} : Steps(c, where)
        \/ \E what : Returns(c, what)
    BY <1>3 DEF Receives, GivesUp, ProjectStep, Scaffolds, MakesDirectory, Writes, BuildBegins,
      Installs, Builds
  <2>3. /\ DOMAIN at' = Calls /\ DOMAIN outcome' = Calls
        /\ \A d \in Calls : at'[d] = at[d] \/ at'[d] \notin {"load", "chain", "send"}
    BY <2>2 DEF Steps, Returns
  <2> QED
    BY <2>1, <2>3, OthersKeepLoad
<1> QED
  BY <1>1, <1>2, <1>3 DEF Next, LoadStep

\* For chains of any length, any number of calls and edits: a device goes to the last place
\* that Live allows it in the chain that was read, if that is the chain still, and is refused
\* only when there is none. (device_insert.py insert_params)
THEOREM DevicesGoWhereTheyMay == Spec => LoadedWhereItGoes
<1>1. LoadInv /\ [Next]_vars => LoadInv'
  <2>1. ASSUME LoadInv, UNCHANGED vars PROVE LoadInv'
    BY <2>1, OthersKeepLoad DEF vars, device, LoadInv
  <2> QED
    BY <2>1, AskKeepsLoad, HandleKeepsLoad, RestKeepsLoad
<1>2. LoadInv /\ [Next]_vars => [\A c \in Calls : LoadsWell(c)]_vars
  <2> SUFFICES ASSUME LoadInv, Next, NEW c \in Calls PROVE LoadsWell(c)
    OBVIOUS
  <2> USE DEF LoadInv
  <2>1. ASSUME outcome'[c] # outcome[c], outcome'[c] = "bad_input" PROVE Places(chain, role[c]) = {}
    <3>1. ReadsChain(c) /\ role[c] = "instrument" /\ "instrument" \in ToSet(Types(chain))
      <4>1. PICK d \in Calls : LoadStep(d) \/ ProjectStep(d)
        BY <2>1 DEF Next, UserEditsChain, UserRemovesProject
      <4>2. CASE ReadsChain(d)
        <5>1. \/ Returns(d, "bridge_error") \/ UNCHANGED outcome
              \/ /\ role[d] = "instrument" /\ "instrument" \in ToSet(Types(chain))
                 /\ Returns(d, "bad_input")
          BY <4>2 DEF ReadsChain, ScriptFails
        <5> QED
          BY <2>1, <4>2, <5>1 DEF Returns
      <4>3. CASE Receives(d)
        BY <2>1, <4>3 DEF Receives, Returns
      <4>4. CASE ~ReadsChain(d) /\ ~Receives(d)
        <5>1. \/ UNCHANGED outcome
              \/ \E what \in {"bridge_error", "unavailable", "error", "exists", "raised", "scaffolded",
                              "no_package", "built"} : Returns(d, what)
          BY <4>1, <4>4 DEF LoadStep, AsksBrowser, Sends, HandlerChecks, LiveInserts, GivesUp,
            ScriptFails, ProjectStep, Scaffolds, MakesDirectory, Writes, BuildBegins, Installs, Builds
        <5> QED
          BY <2>1, <5>1 DEF Returns
      <4> QED
        BY <4>2, <4>3, <4>4
    <3>2. PICK j \in DOMAIN chain : chain[j] = "instrument"
      BY <3>1 DEF ToSet, Types
    <3>3. ASSUME NEW i \in Places(chain, role[c]) PROVE FALSE
      <4>1. i \in 0..Len(chain) /\ Ordered(InsertAt(chain, i + 1, "instrument"))
        BY <3>1, <3>3 DEF Places, Allows
      <4>2. Fits(chain[j], "instrument") \/ Fits("instrument", chain[j])
        BY <4>1, OrderedInsert DEF Roles
      <4> QED
        BY <3>2, <4>2 DEF Fits
    <3> QED
      BY <3>3
  <2>2. ASSUME LiveInserts(c), chain = read[c], typed \/ role[c] # "instrument"
        PROVE  LET places == Places(chain, role[c]) IN
                 IF reply'[c] = "loaded"
                   THEN place[c] \in places /\ (typed => \A i \in places : i <= place[c])
                   ELSE places = {}
    <3>1. ASSUME NEW i \in Places(chain, role[c])
          PROVE  place[c] \in Places(chain, role[c]) /\ (typed => i <= place[c])
      <4>1. role[c] \in Roles
        BY <3>1 DEF Places, Allows
      <4>2. place[c] = InsertIndex(role[c], Types(chain))
        BY <2>2, <4>1 DEF LiveInserts, Computed
      <4> QED
        BY <2>2, <3>1, <4>1, <4>2, IndexIsBest
    <3>2. IF Allows(chain, role[c], place[c]) THEN reply'[c] = "loaded" ELSE reply'[c] = "refused"
      BY <2>2 DEF LiveInserts, Replies
    <3>3. place[c] \in Places(chain, role[c]) <=> Allows(chain, role[c], place[c])
      BY DEF Places, Allows
    <3> QED
      BY <3>1, <3>2, <3>3
  <2> QED
    BY <2>1, <2>2 DEF LoadsWell
<1> QED
  BY InitLoad, <1>1, <1>2, PTL DEF Spec, LoadedWhereItGoes

------------------------------------------------------------------------------
(*********************** the acceptance runner *******************************)
\* What is made and taken away by the probes, what the cleanup writes back in any case,
\* and what it writes back if it is remembered.
Made == {"cue", "bulk", "clip", "placed", "moved"}
Plain == {"playing", "loop", "loopStart", "loopLength", "tempo", "time", "mute", "color"}
Kept == {"warp", "volume", "param"}
Watched == Made \cup Plain \cup Kept

\* The probe whose row answers for a field: the one that takes away what was made, or
\* that tried it; and the call of it from which on what was made is gone.
At == [cue |-> 6, bulk |-> 6, clip |-> 32, placed |-> 30, moved |-> 31, playing |-> 16, loop |-> 12,
       loopStart |-> 10, loopLength |-> 11, tempo |-> 8, time |-> 9, mute |-> 22, color |-> 24,
       warp |-> 38, volume |-> 37, param |-> 33]
Tool == [f \in Watched |-> Probes[At[f]].tool]
Gone == [cue |-> 2, bulk |-> 4, clip |-> 2, placed |-> 4, moved |-> 3]
\* What a call may change, but for the time, which goes on while the Set plays.
Changes(c) ==
  IF c.op = "batch" THEN {"tempo", "loop", "clip"}
  ELSE IF c.op \in {"write", "create", "remove"} THEN {c.field} ELSE {}


LEMMA ProbesAre ==
  /\ Len(Probes) = 39 /\ DOMAIN Probes = 1..39
  /\ Probes[1] = BeforeMutations[1] /\ Probes[2] = BeforeMutations[2] /\ Probes[3] = SaveSet[1] /\
     Probes[4] = Cues[1] /\ Probes[5] = Cues[2] /\ Probes[6] = Cues[3] /\ Probes[7] = Cues[4] /\
     Probes[8] = Transport[1] /\ Probes[9] = Transport[2] /\ Probes[10] = Transport[3] /\
     Probes[11] = Transport[4] /\ Probes[12] = Transport[5] /\ Probes[13] = CreateClip /\
     Probes[14] = ClipContents /\ Probes[15] = Playback[1] /\ Probes[16] = Playback[2] /\
     Probes[17] = Playback[3] /\ Probes[18] = Playback[4] /\ Probes[19] = Playback[5] /\
     Probes[20] = Playback[6] /\ Probes[21] = Playback[7] /\ Probes[22] = Tracks[1] /\
     Probes[23] = Tracks[2] /\ Probes[24] = Tracks[3] /\ Probes[25] = Tracks[4] /\
     Probes[26] = Tracks[5] /\ Probes[27] = Tracks[6] /\ Probes[28] = Arrangement[1] /\
     Probes[29] = Arrangement[2] /\ Probes[30] = Arrangement[3] /\ Probes[31] = Arrangement[4] /\
     Probes[32] = DeleteClip /\ Probes[33] = SetParameter /\ Probes[34] = PluginPresets[1] /\
     Probes[35] = PluginPresets[2] /\ Probes[36] = PluginPresets[3] /\ Probes[37] = LiveFade /\
     Probes[38] = SetWarp /\ Probes[39] = In("quitUnnamed", <<QuitRow>>)[1]
<1>1. BeforeMutations = <<BeforeMutations[1], BeforeMutations[2]>>
  BY DEF BeforeMutations
<1>2. SaveSet = <<SaveSet[1]>>
  BY DEF SaveSet
<1>3. Cues = <<Cues[1], Cues[2], Cues[3], Cues[4]>>
  BY DEF Cues
<1>4. Transport = <<Transport[1], Transport[2], Transport[3], Transport[4], Transport[5]>>
  BY DEF Transport
<1>5. Playback = <<Playback[1], Playback[2], Playback[3], Playback[4], Playback[5], Playback[6],
        Playback[7]>>
  BY DEF Playback
<1>6. Tracks = <<Tracks[1], Tracks[2], Tracks[3], Tracks[4], Tracks[5], Tracks[6]>>
  BY DEF Tracks
<1>7. Arrangement = <<Arrangement[1], Arrangement[2], Arrangement[3], Arrangement[4]>>
  BY DEF Arrangement
<1>8. PluginPresets = <<PluginPresets[1], PluginPresets[2], PluginPresets[3]>>
  BY DEF PluginPresets
<1>9. In("quitUnnamed", <<QuitRow>>) = <<In("quitUnnamed", <<QuitRow>>)[1]>>
  BY DEF In
<1>10. Probes = <<BeforeMutations[1], BeforeMutations[2]>> \o <<SaveSet[1]>> \o
        <<Cues[1], Cues[2], Cues[3], Cues[4]>> \o
        <<Transport[1], Transport[2], Transport[3], Transport[4], Transport[5]>> \o
        <<CreateClip, ClipContents>> \o
        <<Playback[1], Playback[2], Playback[3], Playback[4], Playback[5], Playback[6], Playback[7]>> \o
        <<Tracks[1], Tracks[2], Tracks[3], Tracks[4], Tracks[5], Tracks[6]>> \o
        <<Arrangement[1], Arrangement[2], Arrangement[3], Arrangement[4]>> \o
        <<DeleteClip, SetParameter>> \o <<PluginPresets[1], PluginPresets[2], PluginPresets[3]>> \o
        <<LiveFade, SetWarp>> \o <<In("quitUnnamed", <<QuitRow>>)[1]>>
  BY <1>1, <1>2, <1>3, <1>4, <1>5, <1>6, <1>7, <1>8, <1>9, Zenon DEF Probes
<1> QED
  BY <1>10

NoTool == {"warp", "parameter", "audioTrack", "midiTrack", "device"}
\* What is asked of each probe: no call changes what was made after it is gone, nor what
\* is remembered before it is remembered; a track is never added.
CallOk(i, k) ==
  LET c == Probes[i].calls[k] IN
  /\ c.op = "settle" => c.field = "cue"
  /\ Changes(c) \cap Structural = {}
  /\ \A f \in Made : f \in Changes(c) => i < At[f] \/ (i = At[f] /\ k < Gone[f])
  /\ \A f \in Kept : f \in Changes(c) => i = At[f] /\ (f # "warp" => k >= 3)
ProbeOk(i) ==
  LET p == Probes[i] IN
  /\ Len(p.calls) \in Nat /\ DOMAIN p.calls = 1..Len(p.calls)
  /\ p.tool \notin NoTool
  /\ p.onFail = IF i = 1 THEN "refuse" ELSE IF i = 35 THEN "abort" ELSE "next"
  /\ p.group = IF i = 39 THEN "quitUnnamed" ELSE "mutations"
  /\ i = 39 => p.tool = "quit_ableton" /\ p.needs = "none"
  /\ i \in {1, 35} => \A k \in DOMAIN p.calls : Changes(p.calls[k]) = {}
  /\ \A f \in Watched : p.tool = Tool[f] <=> i = At[f]
  /\ \A k \in DOMAIN p.calls : CallOk(i, k)

LEMMA Fields16 ==
  /\ At["cue"] = 6 /\ Tool["cue"] = "delete_cue_point" /\ Gone["cue"] = 2
  /\ At["bulk"] = 6 /\ Tool["bulk"] = "delete_cue_point" /\ Gone["bulk"] = 4
  /\ At["clip"] = 32 /\ Tool["clip"] = "delete_clip" /\ Gone["clip"] = 2
  /\ At["placed"] = 30 /\ Tool["placed"] = "move_arrangement_clip" /\ Gone["placed"] = 4
  /\ At["moved"] = 31 /\ Tool["moved"] = "delete_arrangement_clip" /\ Gone["moved"] = 3
  /\ At["playing"] = 16 /\ Tool["playing"] = "stop_playback"
  /\ At["loop"] = 12 /\ Tool["loop"] = "set_loop"
  /\ At["loopStart"] = 10 /\ Tool["loopStart"] = "set_loop_start"
  /\ At["loopLength"] = 11 /\ Tool["loopLength"] = "set_loop_length"
  /\ At["tempo"] = 8 /\ Tool["tempo"] = "set_tempo"
  /\ At["time"] = 9 /\ Tool["time"] = "set_current_song_time"
  /\ At["mute"] = 22 /\ Tool["mute"] = "set_track_property"
  /\ At["color"] = 24 /\ Tool["color"] = "set_track_color"
  /\ At["warp"] = 38 /\ Tool["warp"] = "set_warp_state"
  /\ At["volume"] = 37 /\ Tool["volume"] = "live_fade"
  /\ At["param"] = 33 /\ Tool["param"] = "set_parameter_value"
  BY ProbesAre DEF At, Gone, Tool, Watched, Made, Plain, Kept, Probe, Tried, Silent, Vital, Arrangement,
     Cues, DeleteClip, LiveFade, Playback, SetParameter, SetWarp, Tracks, Transport

LEMMA ProbesOk == \A i \in 1..39 : ProbeOk(i)
<1> USE DEF Probe, Tried, Silent, Vital, Call, Write, Create, Delete, Expect, Read, Batch, Owe, Settle,
      Changes, CallOk, ProbeOk, Made, Plain, Kept, Watched, Structural, NoTool
<1>1. ProbeOk(1)
  <2>1. Probes[1] = Vital("refuse", <<Expect("clip", "old")>>)
    BY ProbesAre DEF BeforeMutations
  <2> QED
    BY <2>1, Fields16
<1>2. ProbeOk(2)
  <2>1. Probes[2] = Silent(<<Read("warp"), Owe("warp")>>)
    BY ProbesAre DEF BeforeMutations
  <2> QED
    BY <2>1, Fields16
<1>3. ProbeOk(3)
  <2>1. Probes[3] = Probe("save_set", "none", <<Read("name"), Read("name")>>)
    BY ProbesAre DEF SaveSet
  <2> QED
    BY <2>1, Fields16
<1>4. ProbeOk(4)
  <2>1. Probes[4] = Probe("create_cue_point", "none", <<Write("cue", "new"), Expect("cue", "new"),
          Owe("cue")>>)
    BY ProbesAre DEF Cues
  <2> QED
    BY <2>1, Fields16
<1>5. ProbeOk(5)
  <2>1. Probes[5] = Tried("bulk_create_cue_points", "bulk")
    BY ProbesAre DEF Cues
  <2> QED
    BY <2>1, Fields16
<1>6. ProbeOk(6)
  <2>1. Probes[6] = Probe("delete_cue_point", "none", <<Delete("cue"), Expect("cue", "old"),
          Delete("bulk")>>)
    BY ProbesAre DEF Cues
  <2> QED
    BY <2>1, Fields16
<1>7. ProbeOk(7)
  <2>1. Probes[7] = Silent(<<Settle("cue")>>)
    BY ProbesAre DEF Cues
  <2> QED
    BY <2>1, Fields16
<1>8. ProbeOk(8)
  <2>1. Probes[8] = Tried("set_tempo", "tempo")
    BY ProbesAre DEF Transport
  <2> QED
    BY <2>1, Fields16
<1>9. ProbeOk(9)
  <2>1. Probes[9] = Tried("set_current_song_time", "time")
    BY ProbesAre DEF Transport
  <2> QED
    BY <2>1, Fields16
<1>10. ProbeOk(10)
  <2>1. Probes[10] = Tried("set_loop_start", "loopStart")
    BY ProbesAre DEF Transport
  <2> QED
    BY <2>1, Fields16
<1>11. ProbeOk(11)
  <2>1. Probes[11] = Tried("set_loop_length", "loopLength")
    BY ProbesAre DEF Transport
  <2> QED
    BY <2>1, Fields16
<1>12. ProbeOk(12)
  <2>1. Probes[12] = Tried("set_loop", "loop")
    BY ProbesAre DEF Transport
  <2> QED
    BY <2>1, Fields16
<1>13. ProbeOk(13)
  BY ProbesAre, Fields16 DEF CreateClip
<1>14. ProbeOk(14)
  BY ProbesAre, Fields16 DEF ClipContents
<1>15. ProbeOk(15)
  <2>1. Probes[15] = Tried("start_playback", "playing")
    BY ProbesAre DEF Playback
  <2> QED
    BY <2>1, Fields16
<1>16. ProbeOk(16)
  <2>1. Probes[16] = Probe("stop_playback", "none", <<Write("playing", "old"), Expect("playing", "old")>>)
    BY ProbesAre DEF Playback
  <2> QED
    BY <2>1, Fields16
<1>17. ProbeOk(17)
  <2>1. Probes[17] = Probe("run_batch", "none", <<Batch>>)
    BY ProbesAre DEF Playback
  <2> QED
    BY <2>1, Fields16
<1>18. ProbeOk(18)
  <2>1. Probes[18] = Probe("fire_clip", "create_clip", <<Write("playing", "new"),
          Expect("playing", "new")>>)
    BY ProbesAre DEF Playback
  <2> QED
    BY <2>1, Fields16
<1>19. ProbeOk(19)
  <2>1. Probes[19] = [Silent(<<Write("playing", "old")>>) EXCEPT !.needs = "create_clip"]
    BY ProbesAre DEF Playback
  <2> QED
    BY <2>1, Fields16
<1>20. ProbeOk(20)
  <2>1. Probes[20] = Tried("fire_scene", "playing")
    BY ProbesAre DEF Playback
  <2> QED
    BY <2>1, Fields16
<1>21. ProbeOk(21)
  <2>1. Probes[21] = Silent(<<Write("playing", "old")>>)
    BY ProbesAre DEF Playback
  <2> QED
    BY <2>1, Fields16
<1>22. ProbeOk(22)
  <2>1. Probes[22] = Tried("set_track_property", "mute")
    BY ProbesAre DEF Tracks
  <2> QED
    BY <2>1, Fields16
<1>23. ProbeOk(23)
  <2>1. Probes[23] = Silent(<<Write("mute", "old")>>)
    BY ProbesAre DEF Tracks
  <2> QED
    BY <2>1, Fields16
<1>24. ProbeOk(24)
  <2>1. Probes[24] = Tried("set_track_color", "color")
    BY ProbesAre DEF Tracks
  <2> QED
    BY <2>1, Fields16
<1>25. ProbeOk(25)
  <2>1. Probes[25] = Silent(<<Write("color", "old")>>)
    BY ProbesAre DEF Tracks
  <2> QED
    BY <2>1, Fields16
<1>26. ProbeOk(26)
  <2>1. Probes[26] = Tried("rename_track", "name")
    BY ProbesAre DEF Tracks
  <2> QED
    BY <2>1, Fields16
<1>27. ProbeOk(27)
  <2>1. Probes[27] = Silent(<<Write("name", "old")>>)
    BY ProbesAre DEF Tracks
  <2> QED
    BY <2>1, Fields16
<1>28. ProbeOk(28)
  <2>1. Probes[28] = Probe("duplicate_session_clip_to_arrangement", "create_clip",
          <<Write("placed", "new"), Expect("placed", "new")>>)
    BY ProbesAre DEF Arrangement
  <2> QED
    BY <2>1, Fields16
<1>29. ProbeOk(29)
  <2>1. Probes[29] = Probe("set_arrangement_clip_properties", "create_clip", <<Expect("placed", "new"),
          Read("placed")>>)
    BY ProbesAre DEF Arrangement
  <2> QED
    BY <2>1, Fields16
<1>30. ProbeOk(30)
  <2>1. Probes[30] = Probe("move_arrangement_clip", "create_clip", <<Expect("placed", "new"),
          Write("moved", "new"), Delete("placed"), Expect("placed", "old"), Expect("moved", "new")>>)
    BY ProbesAre DEF Arrangement
  <2> QED
    BY <2>1, Fields16
<1>31. ProbeOk(31)
  <2>1. Probes[31] = Probe("delete_arrangement_clip", "create_clip", <<Expect("moved", "new"),
          Delete("moved"), Expect("moved", "old")>>)
    BY ProbesAre DEF Arrangement
  <2> QED
    BY <2>1, Fields16
<1>32. ProbeOk(32)
  BY ProbesAre, Fields16 DEF DeleteClip
<1>33. ProbeOk(33)
  BY ProbesAre, Fields16 DEF SetParameter
<1>34. ProbeOk(34)
  <2>1. Probes[34] = Silent(<<Read("device"), Owe("plugin")>>)
    BY ProbesAre DEF PluginPresets
  <2> QED
    BY <2>1, Fields16
<1>35. ProbeOk(35)
  <2>1. Probes[35] = [Vital("abort", <<Read("param")>>) EXCEPT !.needs = "plugin"]
    BY ProbesAre DEF PluginPresets
  <2> QED
    BY <2>1, Fields16
<1>36. ProbeOk(36)
  <2>1. Probes[36] = Probe("set_plugin_preset", "plugin", <<Read("param")>>)
    BY ProbesAre DEF PluginPresets
  <2> QED
    BY <2>1, Fields16
<1>37. ProbeOk(37)
  BY ProbesAre, Fields16 DEF LiveFade
<1>38. ProbeOk(38)
  BY ProbesAre, Fields16 DEF SetWarp
<1>39. ProbeOk(39)
  <2>1. Probes[39] = [QuitRow EXCEPT !.group = "quitUnnamed"]
    BY ProbesAre DEF In
  <2>2. /\ Probes[39].tool = "quit_ableton" /\ Probes[39].needs = "none" /\ Probes[39].onFail = "next"
        /\ Probes[39].group = "quitUnnamed" /\ Probes[39].calls = <<>>
    BY <2>1 DEF QuitRow
  <2>3. \A f \in Watched : Probes[39].tool = Tool[f] <=> 39 = At[f]
    BY <2>2, Fields16
  <2>4. /\ Len(Probes[39].calls) \in Nat /\ DOMAIN Probes[39].calls = 1..Len(Probes[39].calls)
        /\ \A k \in DOMAIN Probes[39].calls : CallOk(39, k)
    BY <2>2
  <2>5. Probes[39].tool \notin NoTool
    BY <2>2
  <2> HIDE DEF CallOk, Watched, NoTool
  <2> QED
    BY <2>2, <2>3, <2>4, <2>5
<1> HIDE DEF ProbeOk
<1> QED
  BY <1>1, <1>2, <1>3, <1>4, <1>5, <1>6, <1>7, <1>8, <1>9, <1>10, <1>11, <1>12, <1>13, <1>14, <1>15,
     <1>16, <1>17, <1>18, <1>19, <1>20, <1>21, <1>22, <1>23, <1>24, <1>25, <1>26, <1>27, <1>28, <1>29,
     <1>30, <1>31, <1>32, <1>33, <1>34, <1>35, <1>36, <1>37, <1>38, <1>39

PlaceOk(f) ==
  LET i == At[f]
      p == Probes[i] IN
  /\ i \in 2..38 /\ i # 35 /\ p.tool = Tool[f]
  /\ Tool[f] \notin {"none", "quit_ableton", "save_set"}
  /\ f \in Made \cup Plain => i < 35
  /\ f \in Plain => p.needs = "none"
  /\ f \in Made => /\ p.needs \in {"none", "create_clip"}
                   /\ Gone[f] \in 2..Len(p.calls) + 1 /\ p.calls[Gone[f] - 1] = Delete(f)
  /\ f = "warp" => p.needs = "warp"
  /\ f = "volume" => p.needs = "none"
  /\ f = "param" => p.needs = "parameter"
  /\ f \in {"volume", "param"} => p.calls[2] = Owe(f)
LEMMA PlacesOk == \A f \in Watched : PlaceOk(f)
<1> USE DEF Probe, Tried, Made, Plain, Kept, PlaceOk
<1>1. PlaceOk("cue")
  <2>1. Probes[6] = Probe("delete_cue_point", "none", <<Delete("cue"), Expect("cue", "old"),
          Delete("bulk")>>)
    BY ProbesAre DEF Cues
  <2>2. Probes[6].tool = "delete_cue_point" /\ Probes[6].needs = "none" /\ Len(Probes[6].calls) = 3 /\
          Probes[6].calls[1] = Delete("cue")
    BY <2>1
  <2>5. At["cue"] = 6 /\ Tool["cue"] = "delete_cue_point" /\ Gone["cue"] = 2
    BY Fields16
  <2> HIDE DEF PlaceOk, Made, Plain, Kept, Probe, Tried
  <2>3. Gone["cue"] \in 2..Len(Probes[At["cue"]].calls) + 1 /\
          Probes[At["cue"]].calls[Gone["cue"] - 1] = Delete("cue")
    BY <2>2, <2>5
  <2>4. Probes[At["cue"]].tool = Tool["cue"] /\ At["cue"] \in 2..34 /\ Tool["cue"] \notin {"none",
          "quit_ableton", "save_set"}
        /\ Probes[At["cue"]].needs \in {"none", "create_clip"}
    BY <2>2, <2>5
  <2> QED
    BY <2>3, <2>4, <2>5 DEF PlaceOk, Made, Plain
<1>2. PlaceOk("bulk")
  <2>1. Probes[6] = Probe("delete_cue_point", "none", <<Delete("cue"), Expect("cue", "old"),
          Delete("bulk")>>)
    BY ProbesAre DEF Cues
  <2>2. Probes[6].tool = "delete_cue_point" /\ Probes[6].needs = "none" /\ Len(Probes[6].calls) = 3 /\
          Probes[6].calls[3] = Delete("bulk")
    BY <2>1
  <2>5. At["bulk"] = 6 /\ Tool["bulk"] = "delete_cue_point" /\ Gone["bulk"] = 4
    BY Fields16
  <2> HIDE DEF PlaceOk, Made, Plain, Kept, Probe, Tried
  <2>3. Gone["bulk"] \in 2..Len(Probes[At["bulk"]].calls) + 1 /\
          Probes[At["bulk"]].calls[Gone["bulk"] - 1] = Delete("bulk")
    BY <2>2, <2>5
  <2>4. Probes[At["bulk"]].tool = Tool["bulk"] /\ At["bulk"] \in 2..34 /\ Tool["bulk"] \notin {"none",
          "quit_ableton", "save_set"}
        /\ Probes[At["bulk"]].needs \in {"none", "create_clip"}
    BY <2>2, <2>5
  <2> QED
    BY <2>3, <2>4, <2>5 DEF PlaceOk, Made, Plain
<1>3. PlaceOk("clip")
  <2>1. Probes[32] = Probe("delete_clip", "create_clip", <<Delete("clip"), Expect("clip", "old")>>)
    BY ProbesAre DEF DeleteClip
  <2>2. Probes[32].tool = "delete_clip" /\ Probes[32].needs = "create_clip" /\
          Len(Probes[32].calls) = 2 /\ Probes[32].calls[1] = Delete("clip")
    BY <2>1
  <2>5. At["clip"] = 32 /\ Tool["clip"] = "delete_clip" /\ Gone["clip"] = 2
    BY Fields16
  <2> HIDE DEF PlaceOk, Made, Plain, Kept, Probe, Tried
  <2>3. Gone["clip"] \in 2..Len(Probes[At["clip"]].calls) + 1 /\
          Probes[At["clip"]].calls[Gone["clip"] - 1] = Delete("clip")
    BY <2>2, <2>5
  <2>4. Probes[At["clip"]].tool = Tool["clip"] /\ At["clip"] \in 2..34 /\ Tool["clip"] \notin {"none",
          "quit_ableton", "save_set"}
        /\ Probes[At["clip"]].needs \in {"none", "create_clip"}
    BY <2>2, <2>5
  <2> QED
    BY <2>3, <2>4, <2>5 DEF PlaceOk, Made, Plain
<1>4. PlaceOk("placed")
  <2>1. Probes[30] = Probe("move_arrangement_clip", "create_clip", <<Expect("placed", "new"),
          Write("moved", "new"), Delete("placed"), Expect("placed", "old"), Expect("moved", "new")>>)
    BY ProbesAre DEF Arrangement
  <2>2. Probes[30].tool = "move_arrangement_clip" /\ Probes[30].needs = "create_clip" /\
          Len(Probes[30].calls) = 5 /\ Probes[30].calls[3] = Delete("placed")
    BY <2>1
  <2>5. At["placed"] = 30 /\ Tool["placed"] = "move_arrangement_clip" /\ Gone["placed"] = 4
    BY Fields16
  <2> HIDE DEF PlaceOk, Made, Plain, Kept, Probe, Tried
  <2>3. Gone["placed"] \in 2..Len(Probes[At["placed"]].calls) + 1 /\
          Probes[At["placed"]].calls[Gone["placed"] - 1] = Delete("placed")
    BY <2>2, <2>5
  <2>4. Probes[At["placed"]].tool = Tool["placed"] /\ At["placed"] \in 2..34 /\
          Tool["placed"] \notin {"none", "quit_ableton", "save_set"}
        /\ Probes[At["placed"]].needs \in {"none", "create_clip"}
    BY <2>2, <2>5
  <2> QED
    BY <2>3, <2>4, <2>5 DEF PlaceOk, Made, Plain
<1>5. PlaceOk("moved")
  <2>1. Probes[31] = Probe("delete_arrangement_clip", "create_clip", <<Expect("moved", "new"),
          Delete("moved"), Expect("moved", "old")>>)
    BY ProbesAre DEF Arrangement
  <2>2. Probes[31].tool = "delete_arrangement_clip" /\ Probes[31].needs = "create_clip" /\
          Len(Probes[31].calls) = 3 /\ Probes[31].calls[2] = Delete("moved")
    BY <2>1
  <2>5. At["moved"] = 31 /\ Tool["moved"] = "delete_arrangement_clip" /\ Gone["moved"] = 3
    BY Fields16
  <2> HIDE DEF PlaceOk, Made, Plain, Kept, Probe, Tried
  <2>3. Gone["moved"] \in 2..Len(Probes[At["moved"]].calls) + 1 /\
          Probes[At["moved"]].calls[Gone["moved"] - 1] = Delete("moved")
    BY <2>2, <2>5
  <2>4. Probes[At["moved"]].tool = Tool["moved"] /\ At["moved"] \in 2..34 /\
          Tool["moved"] \notin {"none", "quit_ableton", "save_set"}
        /\ Probes[At["moved"]].needs \in {"none", "create_clip"}
    BY <2>2, <2>5
  <2> QED
    BY <2>3, <2>4, <2>5 DEF PlaceOk, Made, Plain
<1>6. PlaceOk("playing")
  <2>1. Probes[16] = Probe("stop_playback", "none", <<Write("playing", "old"), Expect("playing", "old")>>)
    BY ProbesAre DEF Playback
  <2> QED
    BY <2>1, Fields16
<1>7. PlaceOk("loop")
  <2>1. Probes[12] = Tried("set_loop", "loop")
    BY ProbesAre DEF Transport
  <2> QED
    BY <2>1, Fields16
<1>8. PlaceOk("loopStart")
  <2>1. Probes[10] = Tried("set_loop_start", "loopStart")
    BY ProbesAre DEF Transport
  <2> QED
    BY <2>1, Fields16
<1>9. PlaceOk("loopLength")
  <2>1. Probes[11] = Tried("set_loop_length", "loopLength")
    BY ProbesAre DEF Transport
  <2> QED
    BY <2>1, Fields16
<1>10. PlaceOk("tempo")
  <2>1. Probes[8] = Tried("set_tempo", "tempo")
    BY ProbesAre DEF Transport
  <2> QED
    BY <2>1, Fields16
<1>11. PlaceOk("time")
  <2>1. Probes[9] = Tried("set_current_song_time", "time")
    BY ProbesAre DEF Transport
  <2> QED
    BY <2>1, Fields16
<1>12. PlaceOk("mute")
  <2>1. Probes[22] = Tried("set_track_property", "mute")
    BY ProbesAre DEF Tracks
  <2> QED
    BY <2>1, Fields16
<1>13. PlaceOk("color")
  <2>1. Probes[24] = Tried("set_track_color", "color")
    BY ProbesAre DEF Tracks
  <2> QED
    BY <2>1, Fields16
<1>14. PlaceOk("warp")
  <2>1. Probes[38] = Probe("set_warp_state", "warp", <<Write("warp", "new"), Expect("warp", "new")>>)
    BY ProbesAre DEF SetWarp
  <2> QED
    BY <2>1, Fields16
<1>15. PlaceOk("volume")
  <2>1. Probes[37] = Probe("live_fade", "none", <<Read("volume"), Owe("volume"),
          Write("volume", "other"), Expect("volume", "other"), Write("volume", "new"),
          Expect("volume", "new")>>)
    BY ProbesAre DEF LiveFade
  <2> QED
    BY <2>1, Fields16
<1>16. PlaceOk("param")
  <2>1. Probes[33] = Probe("set_parameter_value", "parameter", <<Read("param"), Owe("param"),
          Write("param", "new"), Expect("param", "new")>>)
    BY ProbesAre DEF SetParameter
  <2> QED
    BY <2>1, Fields16
<1> HIDE DEF PlaceOk
<1> QED
  BY <1>1, <1>2, <1>3, <1>4, <1>5, <1>6, <1>7, <1>8, <1>9, <1>10, <1>11, <1>12, <1>13, <1>14, <1>15,
     <1>16 DEF Watched

\* What each restoration writes back.
Order == <<"playing", "loop", "loopStart", "loopLength", "tempo", "time", "cue", "warp", "mute", "color",
           "volume", "param">>
RestoreOk(i) ==
  LET p == Restores[i] IN
  /\ Len(p.calls) = 2 /\ DOMAIN p.calls = 1..2
  /\ p.calls[1] = Write(Order[i], "old") /\ p.calls[2] = Expect(Order[i], "old")
  /\ p.tool = Tool[Order[i]] /\ p.onFail = "next" /\ p.group = "mutations"
  /\ p.needs = IF Order[i] \in Plain THEN "none" ELSE Order[i]

LEMMA RestoresAre ==
  /\ Len(Restores) = 12 /\ DOMAIN Restores = 1..12
  /\ Restores[1] = Restored(Tool["playing"], "playing") /\ Restores[2] = Restored(Tool["loop"], "loop")
  /\ Restores[3] = Restored(Tool["loopStart"], "loopStart")
  /\ Restores[4] = Restored(Tool["loopLength"], "loopLength")
  /\ Restores[5] = Restored(Tool["tempo"], "tempo") /\ Restores[6] = Restored(Tool["time"], "time")
  /\ Restores[7] = Remembered(Tool["cue"], "cue") /\ Restores[8] = Remembered(Tool["warp"], "warp")
  /\ Restores[9] = Restored(Tool["mute"], "mute") /\ Restores[10] = Restored(Tool["color"], "color")
  /\ Restores[11] = Remembered(Tool["volume"], "volume")
  /\ Restores[12] = Remembered(Tool["param"], "param")
<1>0. RestoreTracks = <<RestoreTracks[1], RestoreTracks[2]>> /\ RestoreDevices = <<RestoreDevices[1],
        RestoreDevices[2]>>
  BY DEF RestoreTracks, RestoreDevices
<1>2. RestoreTransport = <<RestoreTransport[1], RestoreTransport[2], RestoreTransport[3],
        RestoreTransport[4],
        RestoreTransport[5], RestoreTransport[6], RestoreTransport[7], RestoreTransport[8]>>
  BY DEF RestoreTransport
<1>1. Restores = <<RestoreTransport[1], RestoreTransport[2], RestoreTransport[3], RestoreTransport[4],
        RestoreTransport[5], RestoreTransport[6], RestoreTransport[7], RestoreTransport[8]>>
        \o <<RestoreTracks[1], RestoreTracks[2]>> \o <<RestoreDevices[1], RestoreDevices[2]>>
  BY <1>0, <1>2, Zenon DEF Restores
<1>3. /\ Len(Restores) = 12 /\ DOMAIN Restores = 1..12
      /\ Restores[1] = RestoreTransport[1] /\ Restores[2] = RestoreTransport[2]
      /\ Restores[3] = RestoreTransport[3] /\ Restores[4] = RestoreTransport[4]
      /\ Restores[5] = RestoreTransport[5] /\ Restores[6] = RestoreTransport[6]
      /\ Restores[7] = RestoreTransport[7] /\ Restores[8] = RestoreTransport[8]
      /\ Restores[9] = RestoreTracks[1] /\ Restores[10] = RestoreTracks[2]
      /\ Restores[11] = RestoreDevices[1] /\ Restores[12] = RestoreDevices[2]
  <2>1. PICK b1, b2, b3, b4, b5, b6, b7, b8, b9, b10, b11, b12 :
          /\ b1 = RestoreTransport[1] /\ b2 = RestoreTransport[2] /\ b3 = RestoreTransport[3]
          /\ b4 = RestoreTransport[4] /\ b5 = RestoreTransport[5] /\ b6 = RestoreTransport[6]
          /\ b7 = RestoreTransport[7] /\ b8 = RestoreTransport[8] /\ b9 = RestoreTracks[1]
          /\ b10 = RestoreTracks[2] /\ b11 = RestoreDevices[1] /\ b12 = RestoreDevices[2]
    BY Zenon
  <2>2. Restores = <<b1, b2, b3, b4, b5, b6, b7, b8>> \o <<b9, b10>> \o <<b11, b12>>
    BY <1>1, <2>1, Zenon
  <2>3. /\ Len(Restores) = 12 /\ DOMAIN Restores = 1..12 /\ Restores[1] = b1 /\ Restores[2] = b2
        /\ Restores[3] = b3 /\ Restores[4] = b4 /\ Restores[5] = b5 /\ Restores[6] = b6
        /\ Restores[7] = b7 /\ Restores[8] = b8 /\ Restores[9] = b9 /\ Restores[10] = b10
        /\ Restores[11] = b11 /\ Restores[12] = b12
    BY <2>2
  <2> QED
    BY <2>1, <2>3, Zenon
<1>4. /\ RestoreTransport[1] = Restored("stop_playback", "playing") /\
           RestoreTransport[2] = Restored("set_loop", "loop")
      /\ RestoreTransport[3] = Restored("set_loop_start", "loopStart")
      /\ RestoreTransport[4] = Restored("set_loop_length", "loopLength")
      /\ RestoreTransport[5] = Restored("set_tempo", "tempo")
      /\ RestoreTransport[6] = Restored("set_current_song_time", "time")
      /\ RestoreTransport[7] = Remembered("delete_cue_point", "cue")
      /\ RestoreTransport[8] = Remembered("set_warp_state", "warp")
  BY DEF RestoreTransport
<1>5. RestoreTracks[1] = Restored("set_track_property", "mute") /\
        RestoreTracks[2] = Restored("set_track_color", "color")
  BY DEF RestoreTracks
<1>6. RestoreDevices[1] = Remembered("live_fade", "volume") /\
        RestoreDevices[2] = Remembered("set_parameter_value", "param")
  BY DEF RestoreDevices
<1> QED
  BY <1>3, <1>4, <1>5, <1>6, Fields16

LEMMA RestoredIs ==
  ASSUME NEW t, NEW f
  PROVE  LET p == Restored(t, f)
             q == Remembered(t, f) IN
         /\ Len(p.calls) = 2 /\ DOMAIN p.calls = 1..2
         /\ p.calls[1] = Write(f, "old") /\ p.calls[2] = Expect(f, "old")
         /\ p.tool = t /\ p.onFail = "next" /\ p.group = "mutations" /\ p.needs = "none"
         /\ Len(q.calls) = 2 /\ DOMAIN q.calls = 1..2
         /\ q.calls[1] = Write(f, "old") /\ q.calls[2] = Expect(f, "old")
         /\ q.tool = t /\ q.onFail = "next" /\ q.group = "mutations" /\ q.needs = f
  BY DEF Restored, Remembered, Probe

LEMMA RestoresOk == \A i \in 1..12 : RestoreOk(i)
<1> DEFINE R(i) == Restores[i] = IF Order[i] \in Plain THEN Restored(Tool[Order[i]], Order[i])
                                 ELSE Remembered(Tool[Order[i]], Order[i])
<1>1. R(1) /\ R(2) /\ R(3) /\ R(4) /\ R(5) /\ R(6)
  BY RestoresAre DEF Order, Plain
<1>2. R(7) /\ R(8) /\ R(9) /\ R(10) /\ R(11) /\ R(12)
  BY RestoresAre DEF Order, Plain
<1>3. ASSUME NEW i \in 1..12 PROVE R(i)
  <2> HIDE DEF R
  <2> QED
    BY <1>1, <1>2
<1> QED
  BY <1>3, RestoredIs DEF RestoreOk

LEMMA OrderIs ==
  /\ DOMAIN Order = 1..12
  /\ \A i \in 1..12 : Order[i] \in Plain \cup Kept \cup {"cue"}
  /\ \A i \in 1..12 : (Order[i] = "cue" <=> i = 7) /\ (Order[i] = "playing" <=> i = 1) /\
       (Order[i] = "time" <=> i = 6)
  /\ \A f \in Plain \cup Kept : \E i \in 1..12 : Order[i] = f
  /\ \A i, j \in 1..12 : Order[i] = Order[j] => i = j
  BY DEF Order, Plain, Kept

LEMMA ToolsDiffer ==
  /\ \A f \in Watched : Tool[f] \in ToolsOf(Probes, "mutations")
  /\ \A i, j \in 1..12 : Tool[Order[i]] = Tool[Order[j]] => i = j
<1>1. ASSUME NEW f \in Watched PROVE Tool[f] \in ToolsOf(Probes, "mutations")
  <2>1. PlaceOk(f)
    BY PlacesOk
  <2>2. At[f] \in 1..38 /\ Probes[At[f]].tool = Tool[f] /\ Tool[f] # "none"
    BY <2>1 DEF PlaceOk
  <2>3. ProbeOk(At[f])
    BY <2>2, ProbesOk
  <2>4. Probes[At[f]].group = "mutations"
    <3>1. At[f] # 39
      BY <2>2
    <3> QED
      BY <3>1, <2>3 DEF ProbeOk
  <2>5. At[f] \in DOMAIN Probes
    BY <2>2, ProbesAre
  <2> QED
    BY <2>2, <2>4, <2>5 DEF ToolsOf
<1>2. ASSUME NEW i \in 1..12, NEW j \in 1..12, Tool[Order[i]] = Tool[Order[j]] PROVE i = j
  <2>1. Order[i] \in Watched /\ Order[j] \in Watched
    BY OrderIs DEF Watched, Made
  <2>2. At[Order[i]] = At[Order[j]]
    <3>1. PlaceOk(Order[i])
      BY <2>1, PlacesOk
    <3>2. At[Order[i]] \in 1..38 /\ Probes[At[Order[i]]].tool = Tool[Order[j]]
      BY <3>1, <1>2 DEF PlaceOk
    <3>3. ProbeOk(At[Order[i]])
      BY <3>2, ProbesOk
    <3> QED
      BY <3>2, <3>3, <2>1 DEF ProbeOk
  <2>3. \A k, l \in 1..12 : At[Order[k]] = At[Order[l]] => k = l
    BY Fields16 DEF Order
  <2> QED
    BY <2>2, <2>3
<1> QED
  BY <1>1, <1>2

AdditionOk(i) ==
  LET p == Additions[i] IN
  /\ Len(p.calls) \in Nat /\ DOMAIN p.calls = 1..Len(p.calls)
  /\ p.onFail = "next" /\ p.group = "mutations"
  /\ p.tool \notin {"none", "warp", "parameter"} /\ \A f \in Watched : p.tool # Tool[f]
  /\ \A k \in DOMAIN p.calls :
       Changes(p.calls[k]) \subseteq Structural /\ p.calls[k].op \notin {"settle", "owe"}
LEMMA AdditionsOk == Len(Additions) = 3 /\ DOMAIN Additions = 1..3 /\ \A i \in 1..3 : AdditionOk(i)
<1>1. /\ Len(Additions) = 3 /\ DOMAIN Additions = 1..3
      /\ Additions[1] = Tried("create_audio_track", "audioTrack")
      /\ Additions[2] = Tried("create_midi_track", "midiTrack") /\ Additions[3] = LoadDevice
  BY DEF Additions
<1>2. \A f \in Watched : Tool[f] \notin {"create_audio_track", "create_midi_track",
        "load_device_to_track"}
  BY Fields16 DEF Watched, Made, Plain, Kept
<1> USE DEF Tried, LoadDevice, Probe, Call, Write, Expect, Changes, Structural, AdditionOk
<1>3. AdditionOk(1)
  BY <1>1, <1>2
<1>4. AdditionOk(2)
  BY <1>1, <1>2
<1>5. AdditionOk(3)
  BY <1>1, <1>2
<1> HIDE DEF AdditionOk
<1> QED
  BY <1>1, <1>3, <1>4, <1>5

\* What is asked of each probe of the reads: no call changes the Set.
ReadOk(p) ==
  /\ DOMAIN p = {"tool", "needs", "calls", "onFail", "group"}
  /\ Len(p.calls) \in Nat /\ DOMAIN p.calls = 1..Len(p.calls)
  /\ p.onFail \in {"next", "refuse"} /\ p.tool \notin NoTool
  /\ \A k \in DOMAIN p.calls : p.calls[k].op \in {"read", "expect", "owe", "refused"}
ReadSeq(s) == \E S : s \in Seq(S) /\ \A p \in S : ReadOk(p)

LEMMA ReadsJoin ==
  ASSUME NEW s, NEW t, ReadSeq(s), ReadSeq(t)
  PROVE  ReadSeq(s \o t)
<1>1. PICK S : s \in Seq(S) /\ \A p \in S : ReadOk(p)
  BY DEF ReadSeq
<1>2. PICK T : t \in Seq(T) /\ \A p \in T : ReadOk(p)
  BY DEF ReadSeq
<1>3. s \in Seq(S \cup T) /\ t \in Seq(S \cup T)
  BY <1>1, <1>2
<1>4. s \o t \in Seq(S \cup T)
  BY <1>3
<1>5. \A p \in S \cup T : ReadOk(p)
  BY <1>1, <1>2
<1> QED
  BY <1>4, <1>5 DEF ReadSeq

LEMMA ReadSeqFacts ==
  ASSUME NEW s, ReadSeq(s)
  PROVE  Len(s) \in Nat /\ DOMAIN s = 1..Len(s) /\ \A i \in DOMAIN s : ReadOk(s[i])
BY DEF ReadSeq

LEMMA ReadsIn ==
  ASSUME NEW s, NEW g, ReadSeq(s)
  PROVE  ReadSeq(In(g, s))
<1>1. PICK S : s \in Seq(S) /\ \A p \in S : ReadOk(p)
  BY DEF ReadSeq
<1> DEFINE T == {[p EXCEPT !.group = g] : p \in S}
<1>2. ASSUME NEW p \in S PROVE ReadOk([p EXCEPT !.group = g])
  BY <1>1 DEF ReadOk
<1>3. DOMAIN s = 1..Len(s) /\ Len(s) \in Nat /\ \A i \in 1..Len(s) : s[i] \in S
  BY <1>1
<1>4. In(g, s) \in Seq(T)
  BY <1>3 DEF In
<1>5. \A p \in T : ReadOk(p)
  BY <1>2
<1> HIDE DEF T
<1> QED
  BY <1>4, <1>5 DEF ReadSeq

ReadOps == {"read", "expect", "owe", "refused"}
LEMMA CallReads ==
  \A f, v : Read(f).op \in ReadOps /\ Expect(f, v).op \in ReadOps /\ Owe(f).op \in ReadOps /\
    Refused.op \in ReadOps
BY DEF Read, Expect, Owe, Refused, Call, ReadOps

LEMMA ProbeReads ==
  ASSUME NEW t, NEW n, NEW c, DOMAIN c = 1..Len(c), Len(c) \in Nat, t \notin NoTool,
         \A k \in DOMAIN c : c[k].op \in ReadOps
  PROVE  ReadOk(Probe(t, n, c)) /\ (t = "none" => ReadOk(Silent(c)) /\ ReadOk(Vital("refuse", c)))
BY DEF ReadOk, Probe, Silent, Vital, ReadOps

LEMMA ShortCalls ==
  /\ LET c == <<>> IN DOMAIN c = 1..Len(c) /\ Len(c) \in Nat /\ \A k \in DOMAIN c : c[k].op \in ReadOps
  /\ \A x : x.op \in ReadOps =>
       LET c == <<x>> IN DOMAIN c = 1..Len(c) /\ Len(c) \in Nat /\ \A k \in DOMAIN c : c[k].op \in ReadOps
  /\ \A x, y : x.op \in ReadOps /\ y.op \in ReadOps =>
       LET c == <<x, y>> IN DOMAIN c = 1..Len(c) /\ Len(c) \in Nat /\
         \A k \in DOMAIN c : c[k].op \in ReadOps
  /\ \A x, y, z, u : x.op \in ReadOps /\ y.op \in ReadOps /\ z.op \in ReadOps /\ u.op \in ReadOps =>
       LET c == <<x, y, z, u>> IN DOMAIN c = 1..Len(c) /\ Len(c) \in Nat /\
         \A k \in DOMAIN c : c[k].op \in ReadOps
OBVIOUS

\* Any number of tools with one call each.
LEMMA ReadsOfTools ==
  ASSUME NEW tools, NEW n \in Nat, DOMAIN tools = 1..n, \A i \in 1..n : tools[i] \notin NoTool,
         NEW needs, NEW c, c.op \in ReadOps
  PROVE  ReadSeq([i \in DOMAIN tools |-> Probe(tools[i], needs, <<c>>)])
<1> DEFINE S == {Probe(tools[i], needs, <<c>>) : i \in 1..n}
<1>1. \A t : t \notin NoTool => ReadOk(Probe(t, needs, <<c>>))
  BY ShortCalls, ProbeReads
<1>2. \A p \in S : ReadOk(p)
  BY <1>1
<1>3. [i \in DOMAIN tools |-> Probe(tools[i], needs, <<c>>)] \in Seq(S)
  OBVIOUS
<1> HIDE DEF S
<1> QED
  BY <1>2, <1>3 DEF ReadSeq

LEMMA ReadsReading ==
  ASSUME NEW tools, NEW n \in Nat, DOMAIN tools = 1..n, \A i \in 1..n : tools[i] \notin NoTool
  PROVE  ReadSeq(Reading(tools))
BY ReadsOfTools, CallReads DEF Reading

LEMMA ReadsLiteral ==
  /\ \A p : ReadOk(p) => ReadSeq(<<p>>)
  /\ \A p, q : ReadOk(p) /\ ReadOk(q) => ReadSeq(<<p, q>>)
<1>1. ASSUME NEW s, NEW S, s \in Seq(S), \A x \in S : ReadOk(x) PROVE ReadSeq(s)
  BY <1>1 DEF ReadSeq
<1>2. ASSUME NEW p, ReadOk(p) PROVE ReadSeq(<<p>>)
  <2>1. PICK s, S : s = <<p>> /\ S = {p}
    OBVIOUS
  <2>2. s \in Seq(S) /\ \A x \in S : ReadOk(x)
    BY <2>1, <1>2
  <2>3. ReadSeq(s)
    BY <2>2, <1>1
  <2> QED
    BY <2>1, <2>3, Zenon
<1>3. ASSUME NEW p, NEW q, ReadOk(p), ReadOk(q) PROVE ReadSeq(<<p, q>>)
  <2>1. PICK s, S : s = <<p, q>> /\ S = {p, q}
    OBVIOUS
  <2>2. s \in Seq(S) /\ \A x \in S : ReadOk(x)
    BY <2>1, <1>3
  <2>3. ReadSeq(s)
    BY <2>2, <1>1
  <2> QED
    BY <2>1, <2>3, Zenon
<1> QED
  BY <1>2, <1>3

LEMMA OfflineRead == ReadSeq(Offline)
<1>1. ReadSeq(Reading(<<"analyze_audio", "find_frequency_masking", "analyze_mix",
        "extract_single_cycle">>))
  <2>1. PICK tools : tools = <<"analyze_audio", "find_frequency_masking", "analyze_mix",
          "extract_single_cycle">>
    OBVIOUS
  <2>2. DOMAIN tools = 1..4 /\ \A i \in 1..4 : tools[i] \notin NoTool
    BY <2>1 DEF NoTool
  <2>3. ReadSeq(Reading(tools))
    BY <2>2, ReadsReading
  <2> QED
    BY <2>1, <2>3, Zenon
<1>2. ReadSeq(Reading(<<"music_generate_drum_groove", "music_generate_bass", "music_plan_production",
        "plan_user_journey">>))
  <2>1. PICK tools : tools = <<"music_generate_drum_groove", "music_generate_bass",
          "music_plan_production", "plan_user_journey">>
    OBVIOUS
  <2>2. DOMAIN tools = 1..4 /\ \A i \in 1..4 : tools[i] \notin NoTool
    BY <2>1 DEF NoTool
  <2>3. ReadSeq(Reading(tools))
    BY <2>2, ReadsReading
  <2> QED
    BY <2>1, <2>3, Zenon
<1>3. ReadSeq(<<Silent(<<Read("tempo"), Owe("seed")>>)>>)
  <2>1. ReadOk(Silent(<<Read("tempo"), Owe("seed")>>))
    BY ProbeReads, ShortCalls, CallReads DEF NoTool
  <2> QED
    BY <2>1, ReadsLiteral, Zenon
<1>4. ReadSeq([i \in DOMAIN GrooveTools |-> Probe(GrooveTools[i], "seed", <<Read("tempo")>>)])
  <2>1. DOMAIN GrooveTools = 1..4 /\ \A i \in 1..4 : GrooveTools[i] \notin NoTool
    BY DEF GrooveTools, NoTool
  <2> QED
    BY <2>1, ReadsOfTools, CallReads
<1> QED
  BY <1>1, <1>2, <1>3, <1>4, ReadsJoin, ReadsIn, Zenon DEF Offline

LEMMA OfflineToolsRead == ReadSeq(OfflineTools)
<1>1. ReadSeq(Reading(<<"groove_apply", "get_ableton_logs", "diff_snapshots_tool",
        "scaffold_extension">>))
  <2>1. PICK tools : tools = <<"groove_apply", "get_ableton_logs", "diff_snapshots_tool",
          "scaffold_extension">>
    OBVIOUS
  <2>2. DOMAIN tools = 1..4 /\ \A i \in 1..4 : tools[i] \notin NoTool
    BY <2>1 DEF NoTool
  <2>3. ReadSeq(Reading(tools))
    BY <2>2, ReadsReading
  <2> QED
    BY <2>1, <2>3, Zenon
<1>2. ReadSeq(<<Silent(<<Owe("node")>>), Probe("build_extension", "node", <<Expect("name", "old")>>)>>)
  <2>1. ReadOk(Silent(<<Owe("node")>>))
    BY ProbeReads, ShortCalls, CallReads DEF NoTool
  <2>2. ReadOk(Probe("build_extension", "node", <<Expect("name", "old")>>))
    BY ProbeReads, ShortCalls, CallReads DEF NoTool
  <2> QED
    BY <2>1, <2>2, ReadsLiteral, Zenon
<1> QED
  BY <1>1, <1>2, ReadsJoin, ReadsIn, Zenon DEF OfflineTools

LEMMA ComposedRead == ReadSeq(Composed)
<1>1. ReadSeq(Reading(<<"get_bridge_status", "get_session_overview">>))
  <2>1. PICK tools : tools = <<"get_bridge_status", "get_session_overview">>
    OBVIOUS
  <2>2. DOMAIN tools = 1..2 /\ \A i \in 1..2 : tools[i] \notin NoTool
    BY <2>1 DEF NoTool
  <2>3. ReadSeq(Reading(tools))
    BY <2>2, ReadsReading
  <2> QED
    BY <2>1, <2>3, Zenon
<1> QED
  BY <1>1, ReadsIn, Zenon DEF Composed

LEMMA PreflightRead == ReadSeq(Preflight)
<1>1. ReadSeq(<<Confirmed, Baseline>>)
  <2>1. ReadOk(Confirmed)
    BY ProbeReads, ShortCalls, CallReads DEF NoTool, Confirmed
  <2>2. ReadOk(Baseline)
    BY ProbeReads, ShortCalls, CallReads DEF NoTool, Baseline
  <2> QED
    BY <2>1, <2>2, ReadsLiteral, Zenon
<1> QED
  BY <1>1, ReadsIn, Zenon DEF Preflight

LEMMA DiscoveryRead == ReadSeq(Discovery)
<1>1. ReadSeq(<<Silent(<<Read("clip"), Owe("occupied"), Read("device"), Owe("rack")>>),
        Silent(<<Read("param"), Owe("parameter")>>)>>)
  <2>1. ReadOk(Silent(<<Read("clip"), Owe("occupied"), Read("device"), Owe("rack")>>))
    BY ProbeReads, ShortCalls, CallReads DEF NoTool
  <2>2. ReadOk(Silent(<<Read("param"), Owe("parameter")>>))
    BY ProbeReads, ShortCalls, CallReads DEF NoTool
  <2> QED
    BY <2>1, <2>2, ReadsLiteral, Zenon
<1> QED
  BY <1>1, ReadsIn, Zenon DEF Discovery

LEMMA CapabilityRead == ReadSeq(Capability)
<1>1. ReadSeq(<<Vital("refuse", <<Read("name")>>)>>)
  <2>1. ReadOk(Vital("refuse", <<Read("name")>>))
    BY ProbeReads, ShortCalls, CallReads DEF NoTool
  <2> QED
    BY <2>1, ReadsLiteral, Zenon
<1>2. ReadSeq([i \in DOMAIN HierarchyTools |-> Probe(HierarchyTools[i], "none", <<Refused>>)])
  <2>1. DOMAIN HierarchyTools = 1..5 /\ \A i \in 1..5 : HierarchyTools[i] \notin NoTool
    BY DEF HierarchyTools, NoTool
  <2> QED
    BY <2>1, ReadsOfTools, CallReads
<1> QED
  BY <1>1, <1>2, ReadsJoin, ReadsIn, Zenon DEF Capability

LEMMA SessionReadsRead == ReadSeq(SessionReads)
<1>1. ReadSeq(Reading(<<"get_project_metadata", "get_session_info", "get_track_list",
        "diagnose_clip_targets", "get_arrangement_clips">>))
  <2>1. PICK tools : tools = <<"get_project_metadata", "get_session_info", "get_track_list",
          "diagnose_clip_targets", "get_arrangement_clips">>
    OBVIOUS
  <2>2. DOMAIN tools = 1..5 /\ \A i \in 1..5 : tools[i] \notin NoTool
    BY <2>1 DEF NoTool
  <2>3. ReadSeq(Reading(tools))
    BY <2>2, ReadsReading
  <2> QED
    BY <2>1, <2>3, Zenon
<1>2. ReadSeq(<<Probe("get_device_chains", "rack", <<Read("device")>>)>>)
  <2>1. ReadOk(Probe("get_device_chains", "rack", <<Read("device")>>))
    BY ProbeReads, ShortCalls, CallReads DEF NoTool
  <2> QED
    BY <2>1, ReadsLiteral, Zenon
<1>3. ReadSeq(Reading(<<"get_midi_chain_report", "describe_instrument">>))
  <2>1. PICK tools : tools = <<"get_midi_chain_report", "describe_instrument">>
    OBVIOUS
  <2>2. DOMAIN tools = 1..2 /\ \A i \in 1..2 : tools[i] \notin NoTool
    BY <2>1 DEF NoTool
  <2>3. ReadSeq(Reading(tools))
    BY <2>2, ReadsReading
  <2> QED
    BY <2>1, <2>3, Zenon
<1>4. ReadSeq(<<Probe("get_clip_automation", "occupied", <<Read("clip")>>)>>)
  <2>1. ReadOk(Probe("get_clip_automation", "occupied", <<Read("clip")>>))
    BY ProbeReads, ShortCalls, CallReads DEF NoTool
  <2> QED
    BY <2>1, ReadsLiteral, Zenon
<1> QED
  BY <1>1, <1>2, <1>3, <1>4, ReadsJoin, ReadsIn, Zenon DEF SessionReads

LEMMA StateReadsRead == ReadSeq(StateReads)
<1>1. ReadSeq(Reading(<<"get_track_state", "get_locators", "take_snapshot", "get_control_surfaces",
        "get_scenes", "get_scene_state", "get_loop_settings", "get_selected_context", "get_clip_summary",
        "get_clip_notes", "get_clip_info", "get_device_list">>))
  <2>1. PICK tools : tools = <<"get_track_state", "get_locators", "take_snapshot",
          "get_control_surfaces", "get_scenes", "get_scene_state", "get_loop_settings",
          "get_selected_context", "get_clip_summary", "get_clip_notes", "get_clip_info",
          "get_device_list">>
    OBVIOUS
  <2>2. DOMAIN tools = 1..12 /\ \A i \in 1..12 : tools[i] \notin NoTool
    BY <2>1 DEF NoTool
  <2>3. ReadSeq(Reading(tools))
    BY <2>2, ReadsReading
  <2> QED
    BY <2>1, <2>3, Zenon
<1>2. ReadSeq(<<Probe("get_parameter_value", "parameter", <<Read("param")>>)>>)
  <2>1. ReadOk(Probe("get_parameter_value", "parameter", <<Read("param")>>))
    BY ProbeReads, ShortCalls, CallReads DEF NoTool
  <2> QED
    BY <2>1, ReadsLiteral, Zenon
<1>3. ReadSeq(Reading(<<"get_routing", "get_browser_categories">>))
  <2>1. PICK tools : tools = <<"get_routing", "get_browser_categories">>
    OBVIOUS
  <2>2. DOMAIN tools = 1..2 /\ \A i \in 1..2 : tools[i] \notin NoTool
    BY <2>1 DEF NoTool
  <2>3. ReadSeq(Reading(tools))
    BY <2>2, ReadsReading
  <2> QED
    BY <2>1, <2>3, Zenon
<1> QED
  BY <1>1, <1>2, <1>3, ReadsJoin, ReadsIn, Zenon DEF StateReads

LEMMA FindReadsRead == ReadSeq(FindReads)
<1>1. ReadSeq(<<Vital("refuse", <<Read("device")>>)>>)
  <2>1. ReadOk(Vital("refuse", <<Read("device")>>))
    BY ProbeReads, ShortCalls, CallReads DEF NoTool
  <2> QED
    BY <2>1, ReadsLiteral, Zenon
<1>2. ReadSeq(Reading(<<"search_browser", "get_song_length">>))
  <2>1. PICK tools : tools = <<"search_browser", "get_song_length">>
    OBVIOUS
  <2>2. DOMAIN tools = 1..2 /\ \A i \in 1..2 : tools[i] \notin NoTool
    BY <2>1 DEF NoTool
  <2>3. ReadSeq(Reading(tools))
    BY <2>2, ReadsReading
  <2> QED
    BY <2>1, <2>3, Zenon
<1>3. ReadSeq(<<Vital("refuse", <<Read("name")>>)>>)
  <2>1. ReadOk(Vital("refuse", <<Read("name")>>))
    BY ProbeReads, ShortCalls, CallReads DEF NoTool
  <2> QED
    BY <2>1, ReadsLiteral, Zenon
<1>4. ReadSeq(Reading(<<"live_find_track", "live_find_device", "live_find_clip">>))
  <2>1. PICK tools : tools = <<"live_find_track", "live_find_device", "live_find_clip">>
    OBVIOUS
  <2>2. DOMAIN tools = 1..3 /\ \A i \in 1..3 : tools[i] \notin NoTool
    BY <2>1 DEF NoTool
  <2>3. ReadSeq(Reading(tools))
    BY <2>2, ReadsReading
  <2> QED
    BY <2>1, <2>3, Zenon
<1>5. ReadSeq(<<Vital("refuse", <<Read("name")>>)>>)
  <2>1. ReadOk(Vital("refuse", <<Read("name")>>))
    BY ProbeReads, ShortCalls, CallReads DEF NoTool
  <2> QED
    BY <2>1, ReadsLiteral, Zenon
<1>6. ReadSeq(Reading(<<"list_device_params", "get_composition_structure", "diagnose_midi_clip",
        "lifecycle_status">>))
  <2>1. PICK tools : tools = <<"list_device_params", "get_composition_structure", "diagnose_midi_clip",
          "lifecycle_status">>
    OBVIOUS
  <2>2. DOMAIN tools = 1..4 /\ \A i \in 1..4 : tools[i] \notin NoTool
    BY <2>1 DEF NoTool
  <2>3. ReadSeq(Reading(tools))
    BY <2>2, ReadsReading
  <2> QED
    BY <2>1, <2>3, Zenon
<1>7. ReadSeq(<<Silent(<<Read("device"), Owe("plugin")>>), Probe("get_plugin_presets", "plugin",
        <<Read("device")>>)>>)
  <2>1. ReadOk(Silent(<<Read("device"), Owe("plugin")>>))
    BY ProbeReads, ShortCalls, CallReads DEF NoTool
  <2>2. ReadOk(Probe("get_plugin_presets", "plugin", <<Read("device")>>))
    BY ProbeReads, ShortCalls, CallReads DEF NoTool
  <2> QED
    BY <2>1, <2>2, ReadsLiteral, Zenon
<1> QED
  BY <1>1, <1>2, <1>3, <1>4, <1>5, <1>6, <1>7, ReadsJoin, ReadsIn, Zenon DEF FindReads

LEMMA UnreadRead == ReadSeq(Unread)
<1>1. ReadSeq(<<Probe("get_project_metadata", "none", <<>>)>>)
  <2>1. ReadOk(Probe("get_project_metadata", "none", <<>>))
    BY ProbeReads, ShortCalls, CallReads DEF NoTool
  <2> QED
    BY <2>1, ReadsLiteral, Zenon
<1> QED
  BY <1>1, ReadsIn, Zenon DEF Unread

LEMMA WebsocketReadsRead == ReadSeq(WebsocketReads)
<1>1. ReadSeq(Reading(<<"get_warp_state">>))
  <2>1. PICK tools : tools = <<"get_warp_state">>
    OBVIOUS
  <2>2. DOMAIN tools = 1..1 /\ \A i \in 1..1 : tools[i] \notin NoTool
    BY <2>1 DEF NoTool
  <2>3. ReadSeq(Reading(tools))
    BY <2>2, ReadsReading
  <2> QED
    BY <2>1, <2>3, Zenon
<1> QED
  BY <1>1, ReadsIn, Zenon DEF WebsocketReads

\* What stands first in the second of two sequences.
LEMMA JoinedAt ==
  ASSUME NEW S, NEW a \in Seq(S), NEW b \in Seq(S), Len(b) = 1
  PROVE  (a \o b)[Len(a) + 1] = b[1] /\ Len(a) + 1 \in 1..Len(a \o b)
<1> DEFINE n == Len(a)
<1>0. n \in Nat
  OBVIOUS
<1>3. /\ Len(a \o b) = n + Len(b)
      /\ \A i \in 1..(n + Len(b)) : (a \o b)[i] = IF i <= n THEN a[i] ELSE b[i - n]
  BY ConcatProperties, Zenon
<1> HIDE DEF n
<1>1. Len(a \o b) = n + 1 /\ n + 1 \in 1..(n + 1)
  BY <1>0, <1>3
<1>2. (a \o b)[n + 1] = b[1]
  <2>1. PICK j : j = n + 1
    OBVIOUS
  <2>2. j \in 1..(n + Len(b)) /\ ~(j <= n) /\ j - n = 1
    BY <1>0, <2>1
  <2>3. (a \o b)[j] = IF j <= n THEN a[j] ELSE b[j - n]
    BY <1>3, <2>2, Zenon
  <2>4. (a \o b)[j] = b[1]
    BY <2>2, <2>3, Zenon
  <2> QED
    BY <2>1, <2>4, Zenon
<1> USE DEF n
<1> QED
  BY <1>1, <1>2

EarlyReads == Offline \o OfflineTools \o Composed \o Preflight \o Discovery \o Capability
                \o SessionReads \o StateReads \o FindReads \o Unread \o WebsocketReads
LEMMA ReadsAre ==
  /\ Len(Reads) \in Nat /\ DOMAIN Reads = 1..Len(Reads) /\ \A i \in DOMAIN Reads : ReadOk(Reads[i])
  /\ \E i \in DOMAIN Reads : Reads[i].tool = "quit_ableton" /\ Reads[i].group = "quitNamed"
<1> DEFINE q == In("quitNamed", <<QuitRow>>)
<1>1. ReadSeq(EarlyReads)
  <2>1. ReadSeq(Offline \o OfflineTools \o Composed \o Preflight)
    BY OfflineRead, OfflineToolsRead, ComposedRead, PreflightRead, ReadsJoin, Zenon
  <2>2. ReadSeq(Offline \o OfflineTools \o Composed \o Preflight \o Discovery \o Capability)
    BY <2>1, DiscoveryRead, CapabilityRead, ReadsJoin, Zenon
  <2>3. ReadSeq(Offline \o OfflineTools \o Composed \o Preflight \o Discovery \o Capability
                \o SessionReads \o StateReads)
    BY <2>2, SessionReadsRead, StateReadsRead, ReadsJoin, Zenon
  <2> QED
    BY <2>3, FindReadsRead, UnreadRead, WebsocketReadsRead, ReadsJoin, Zenon DEF EarlyReads
<1>2. ReadSeq(<<QuitRow>>)
  <2>1. ReadOk(QuitRow)
    BY ProbeReads, ShortCalls DEF QuitRow, NoTool
  <2> QED
    BY <2>1, ReadsLiteral
<1>3. ReadSeq(q)
  BY <1>2, ReadsIn
<1>4. Len(q) = 1 /\ q[1].tool = "quit_ableton" /\ q[1].group = "quitNamed"
  BY DEF In, QuitRow, Probe
<1> HIDE DEF q
<1>5. Reads = EarlyReads \o q
  BY Zenon DEF Reads, EarlyReads, q
<1>6. ReadSeq(Reads)
  BY <1>1, <1>3, <1>5, ReadsJoin, Zenon
<1>7. Reads[Len(EarlyReads) + 1] = q[1] /\ Len(EarlyReads) + 1 \in 1..Len(Reads)
  <2>1. PICK S : EarlyReads \in Seq(S)
    BY <1>1 DEF ReadSeq
  <2>2. PICK T : q \in Seq(T)
    BY <1>3 DEF ReadSeq
  <2>3. EarlyReads \in Seq(S \cup T) /\ q \in Seq(S \cup T)
    BY <2>1, <2>2
  <2>4. (EarlyReads \o q)[Len(EarlyReads) + 1] = q[1] /\ Len(EarlyReads) + 1 \in 1..Len(EarlyReads \o q)
    BY <1>4, <2>3, JoinedAt
  <2> QED
    BY <1>5, <2>4, Zenon
<1> QED
  BY <1>4, <1>6, <1>7, ReadSeqFacts

Old(f) == set[f] = "old"
Rec(t) == row[t] \in {"passed", "failed", "host"}
Bad(t) == row[t] \in {"failed", "host"}
Ending == {"report", "done", "refused", "unreported"}

AcceptanceTypes ==
  /\ DOMAIN set = Fields /\ DOMAIN row = Tools
  /\ expanded \subseteq Groups /\ lacks \subseteq Fixtures
  /\ phase \in {"reads", "probes", "cleanup", "additions"} \cup Ending
  /\ turn \in Nat \ {0} /\ step \in Nat \ {0} /\ aborted \in BOOLEAN
  /\ phase \in {"probes", "cleanup", "additions"} => "mutations" \in expanded

ReadsInv == phase = "reads" => \A f \in Fields : Old(f)
\* What was made is gone when its probe has passed; a row stands for each field that has
\* been tried, and what is remembered is remembered before it is changed.
ProbesInv ==
  phase = "probes" =>
    /\ turn = 1 => \A f \in Fields : Old(f)
    /\ \A f \in Made : /\ turn = At[f] /\ step >= Gone[f] => Old(f)
                       /\ turn > At[f] => Old(f) \/ Bad(Tool[f])
    /\ \A f \in Plain : turn > At[f] => Rec(Tool[f])
    /\ \A f \in {"volume", "param"} : turn = At[f] /\ step >= 3 => f \in owed
    /\ \A f \in Kept : \/ Old(f)
                       \/ /\ f \in owed /\ (f = "param" => "parameter" \in owed)
                          /\ turn >= At[f] /\ (turn > At[f] => Rec(Tool[f]))
    /\ \A f \in Structural : Old(f)
    /\ turn > 38 => step = 1
\* Each restoration has put its field back or is noted; while the Set plays, its time
\* cannot be put back.
CleanupInv ==
  phase = "cleanup" =>
    /\ \A f \in Made : Old(f) \/ Bad(Tool[f])
    /\ \A f \in Plain : Rec(Tool[f])
    /\ \A f \in Kept : Old(f) \/ (f \in owed /\ Rec(Tool[f]))
    /\ \A f \in Structural : Old(f)
    /\ \A i \in 1..12 \ {7} :
         /\ i < turn => Old(Order[i]) \/ Tool[Order[i]] \in broken
         /\ i = turn /\ step = 2 =>
              \/ Old(Order[i]) /\ (i = 6 => set["playing"] # "new")
              \/ i = 6 /\ set["playing"] = "new" /\ set["time"] = "other"
         /\ i = turn /\ step > 2 => Old(Order[i]) /\ (i = 6 => set["playing"] # "new")
    /\ turn > 6 /\ Tool["time"] \notin broken => set["playing"] # "new"
AdditionsInv ==
  phase = "additions" =>
    /\ \A f \in Made : Old(f) \/ Bad(Tool[f])
    /\ \A f \in Plain \cup Kept : Old(f)
EndInv == phase \in Ending => \A f \in Watched : Old(f) \/ Bad(Tool[f])
SetInv == ReadsInv /\ ProbesInv /\ CleanupInv /\ AdditionsInv /\ EndInv

\* The rows of the first probes of a programme.
Recorded(probes, n) ==
  \A i \in DOMAIN probes :
    i < n /\ Selected(probes[i].group) /\ probes[i].tool \in Tools => row[probes[i].tool] # "none"
RowsInv ==
  /\ phase = "reads" => Recorded(Reads, turn)
  /\ phase # "reads" /\ ~aborted => Recorded(Reads, Len(Reads) + 1)
  /\ phase = "probes" => Recorded(Probes, turn)
  /\ phase \in {"cleanup", "additions"} => \A t \in ToolsOf(Probes, "mutations") : row[t] # "none"
  /\ phase \notin {"reads", "probes"} /\ "mutations" \in expanded /\ ~aborted => Recorded(Probes, 40)
  /\ phase = "additions" => Recorded(Additions, turn)
  /\ phase \in Ending /\ "mutations" \in expanded => \A t \in Rows("mutations") : row[t] # "none"
  /\ phase = "unreported" => aborted \/ (QuitNamed /\ "mutations" \in expanded)
AcceptanceInv == AcceptanceTypes /\ SetInv /\ RowsInv
AcceptanceSteps == Do \/ Fault \/ EndProbe

\* The five ways a call or a probe goes.
Op == Current.calls[step]
OwedAfter(c) ==
  IF c.op = "owe" THEN owed \cup ({c.field} \ lacks)
  ELSE owed \ (IF c.op = "settle" THEN {c.field} ELSE {})
GoesOn ==
  /\ Selected(Current.group) /\ Met(Current) /\ step <= Len(Current.calls)
  /\ Answered(Op) /\ set' = Effect(Op, set) /\ owed' = OwedAfter(Op)
  /\ step' = step + 1 /\ UNCHANGED <<phase, turn, row, broken, aborted>>
Fails ==
  /\ Selected(Current.group) /\ Met(Current) /\ step <= Len(Current.calls)
  /\ set' \in {set, Effect(Op, set)} /\ owed' = owed
  /\ \E how \in {"failed", "host", "raised"} : Ends(Current, how)
Passes ==
  /\ Selected(Current.group) /\ Met(Current) /\ step > Len(Current.calls)
  /\ set' = set /\ owed' = owed /\ Ends(Current, "passed")
Lacks ==
  /\ Selected(Current.group) /\ ~Met(Current)
  /\ set' = set /\ owed' = owed /\ broken' = broken /\ step' = 1
  /\ Goes(Current, IF Current.needs \in Fixtures THEN "environment" ELSE "failed")
Skips ==
  /\ ~Selected(Current.group) /\ turn' = turn + 1
  /\ UNCHANGED <<set, owed, step, phase, row, broken, aborted>>

LEMMA CallCases ==
  ASSUME Do \/ Fault \/ EndProbe
  PROVE  /\ Running /\ UNCHANGED <<profiles, expanded, lacks>>
         /\ GoesOn \/ Fails \/ Passes \/ Lacks \/ Skips
<1>1. CASE Do
  <2>1. CASE Answered(Op)
    <3>1. GoesOn
      BY <1>1, <2>1 DEF Do, GoesOn, Op, Done, OwedAfter
    <3> QED
      BY <1>1, <3>1 DEF Do, expanded
  <2>2. CASE ~Answered(Op)
    <3>1. Op.op \in {"create", "remove", "expect", "batch"}
      BY <2>2 DEF Answered
    <3>2. owed' = owed
      BY <1>1, <3>1 DEF Do, Op
    <3>3. set' \in {set, Effect(Op, set)} /\ Ends(Current, "failed")
      BY <1>1, <2>2 DEF Do, Op, Done
    <3>4. Fails
      BY <1>1, <3>2, <3>3 DEF Do, Fails
    <3> QED
      BY <1>1, <3>4 DEF Do, expanded
  <2> QED
    BY <2>1, <2>2
<1>2. CASE Fault
  <2>1. set' \in {set, Effect(Op, set)} /\ \E how \in {"failed", "host", "raised"} : Ends(Current, how)
    BY <1>2 DEF Fault, Op, Done
  <2>2. Fails
    BY <1>2, <2>1 DEF Fault, Fails
  <2> QED
    BY <1>2, <2>2 DEF Fault, expanded
<1>3. CASE EndProbe
  <2>1. Passes \/ Lacks \/ Skips
    BY <1>3 DEF EndProbe, Passes, Lacks, Skips
  <2> QED
    BY <1>3, <2>1 DEF EndProbe, expanded
<1> QED
  BY <1>1, <1>2, <1>3

\* What a call leaves as it is.
LEMMA EffectIs ==
  ASSUME NEW c, DOMAIN set = Fields
  PROVE  LET e == Effect(c, set) IN
         /\ DOMAIN e = Fields
         /\ \A f \in Fields \ {"time"} : f \notin Changes(c) => e[f] = set[f]
         /\ c.op \in {"write", "create", "remove"} /\ c.field \in Fields /\ c.field # "time" =>
              e[c.field] = c.value
         /\ e["playing"] = "new" => e["time"] = "other"
         /\ e["playing"] # "new" /\ "time" \notin Changes(c) => e["time"] = set["time"]
         /\ e["playing"] # "new" /\ c.op \in {"write", "create", "remove"} /\ c.field = "time" =>
              e["time"] = c.value
<1>1. {"time", "playing", "tempo", "loop", "clip"} \subseteq Fields
  BY DEF Fields
<1> DEFINE t == IF c.op = "batch" THEN [set EXCEPT !.tempo = "other", !.loop = "new", !.clip = "new"]
                ELSE IF c.op \in {"write", "create", "remove"} THEN [set EXCEPT ![c.field] = c.value]
                ELSE set
<1>2. /\ DOMAIN t = Fields
      /\ \A f \in Fields : f \notin Changes(c) => t[f] = set[f]
      /\ c.op \in {"write", "create", "remove"} /\ c.field \in Fields => t[c.field] = c.value
  <2>1. CASE c.op = "batch"
    BY <2>1, <1>1 DEF Changes
  <2>2. CASE c.op \in {"write", "create", "remove"}
    BY <2>2, <1>1 DEF Changes
  <2>3. CASE c.op \notin {"batch", "write", "create", "remove"}
    BY <2>3, <1>1 DEF Changes
  <2> QED
    BY <2>1, <2>2, <2>3
<1>3. Effect(c, set) = IF t["playing"] = "new" THEN [t EXCEPT !["time"] = "other"] ELSE t
  BY DEF Effect
<1> HIDE DEF t
<1> QED
  BY <1>1, <1>2, <1>3

LEMMA ToolsAre ==
  /\ "none" \notin Tools /\ "warp" \notin Tools /\ "parameter" \notin Tools
  /\ ToolsOf(Probes, "mutations") \subseteq Rows("mutations") /\ Structurals \subseteq Rows("mutations")
  /\ \A g \in Groups : Rows(g) \subseteq Tools
  /\ "mutations" \in Groups /\ \A f \in Watched : Tool[f] \in Tools
<1>1. \A g \in Groups : Rows(g) \subseteq Tools
  BY DEF Tools
<1>2. ToolsOf(Probes, "mutations") \subseteq Rows("mutations") /\ Structurals \subseteq Rows("mutations")
  BY DEF Rows
<1>3. "mutations" \in Groups
  BY DEF Groups
<1>4. \A g : \A t \in ToolsOf(Reads, g) : t \notin {"none", "warp", "parameter"}
  BY ReadsAre DEF ToolsOf, ReadOk, NoTool
<1>5. \A g : \A t \in ToolsOf(Probes, g) : t \notin {"none", "warp", "parameter"}
  <2>1. \A i \in DOMAIN Probes : Probes[i].tool \notin NoTool
    BY ProbesAre, ProbesOk DEF ProbeOk
  <2> QED
    BY <2>1 DEF ToolsOf, NoTool
<1>6. \A t \in Structurals : t \notin {"none", "warp", "parameter"}
  BY AdditionsOk DEF Structurals, ToolsOf, AdditionOk
<1>7. \A g \in Groups : \A t \in Rows(g) : t \notin {"none", "warp", "parameter"}
  BY <1>4, <1>5, <1>6 DEF Rows
<1>8. \A t \in Tools : t \notin {"none", "warp", "parameter"}
  BY <1>7 DEF Tools
<1> QED
  BY <1>1, <1>2, <1>3, <1>8, ToolsDiffer

LEMMA CurrentIs ==
  ASSUME AcceptanceTypes, Running
  PROVE  /\ phase \in {"reads", "probes", "cleanup", "additions"}
         /\ phase = "reads" => turn \in DOMAIN Reads /\ Current = Reads[turn] /\ ReadOk(Current)
         /\ phase = "probes" => turn \in 1..39 /\ Current = Probes[turn] /\ ProbeOk(turn)
         /\ phase = "cleanup" => turn \in 1..12 /\ Current = Restores[turn] /\ RestoreOk(turn)
         /\ phase = "additions" => turn \in 1..3 /\ Current = Additions[turn] /\ AdditionOk(turn)
<1>1. CASE phase = "reads"
  BY <1>1, ReadsAre DEF AcceptanceTypes, Running, Current, Programme
<1>2. CASE phase = "probes"
  <2>1. Programme(phase) = Probes
    BY <1>2 DEF Programme
  <2>2. Len(Probes) = 39
    BY ProbesAre
  <2>3. turn \in 1..39 /\ Current = Probes[turn]
    BY <2>1, <2>2 DEF AcceptanceTypes, Running, Current
  <2>4. ProbeOk(turn)
    BY <2>3, ProbesOk
  <2> QED
    BY <1>2, <2>3, <2>4
<1>3. CASE phase = "cleanup"
  <2>1. Programme(phase) = Restores
    BY <1>3 DEF Programme
  <2>2. Len(Restores) = 12
    BY RestoresAre
  <2>3. turn \in 1..12 /\ Current = Restores[turn]
    BY <2>1, <2>2 DEF AcceptanceTypes, Running, Current
  <2>4. RestoreOk(turn)
    BY <2>3, RestoresOk
  <2> QED
    BY <1>3, <2>3, <2>4
<1>4. CASE phase = "additions"
  <2>1. Programme(phase) = Additions
    BY <1>4 DEF Programme
  <2>2. Len(Additions) = 3
    BY AdditionsOk
  <2>3. turn \in 1..3 /\ Current = Additions[turn]
    BY <2>1, <2>2 DEF AcceptanceTypes, Running, Current
  <2>4. AdditionOk(turn)
    BY <2>3, AdditionsOk
  <2> QED
    BY <1>4, <2>3, <2>4
<1> QED
  BY <1>1, <1>2, <1>3, <1>4 DEF Running

\* The next probe of the phase: the row of this one is recorded.
Status(p, how) ==
  IF how = "passed" THEN Success(p.tool) ELSE IF how = "host" THEN "host" ELSE "failed"
LEMMA EndsIs ==
  ASSUME NEW p, NEW how \in {"passed", "failed", "host", "raised"}, Ends(p, how)
  PROVE  /\ step' = 1
         /\ broken' = IF phase = "cleanup" /\ how # "passed" THEN broken \cup {p.tool} ELSE broken
         /\ p.onFail = "next" \/ how = "passed" => Goes(p, Status(p, how))
         /\ p.onFail # "next" /\ how # "passed" => Stops(p, how)
         /\ Status(p, how) # "none"
BY DEF Ends, Status, Success

\* No row is taken back.
Grows == DOMAIN row' = Tools /\ \A t \in Tools : row[t] # "none" => row'[t] # "none"
LEMMA GoesGrows ==
  ASSUME DOMAIN row = Tools, NEW p, NEW status, status # "none", Goes(p, status)
  PROVE  Grows
BY DEF Goes, Records, Grows
LEMMA StopsGrows ==
  ASSUME NEW p, NEW how, Stops(p, how)
  PROVE  /\ Grows /\ \A t \in Rows("mutations") : t \in Tools => row'[t] # "none"
         /\ aborted' = TRUE /\ turn' = 1
         /\ p.onFail = "abort" => phase' = "cleanup"
         /\ p.onFail # "abort" => phase' \in {"refused", "report"}
<1>1. CASE p.onFail = "abort"
  BY <1>1 DEF Stops, Failing, Grows
<1>2. CASE p.onFail # "abort"
  <2>1. row' = Outer
    BY <1>2 DEF Stops
  <2> DEFINE r == Failing(Rows("mutations") \cup Rows("websocket_reads"))
  <2>2. /\ DOMAIN r = Tools /\ \A t \in Tools : row[t] # "none" => r[t] # "none"
        /\ \A t \in Rows("mutations") : t \in Tools => r[t] # "none"
    BY DEF Failing
  <2> HIDE DEF r
  <2>3. row' = [r EXCEPT !["quit_ableton"] = IF @ = "none" /\ ~QuitNamed THEN "manual" ELSE @]
    BY <2>1 DEF Outer, r
  <2> QED
    BY <1>2, <2>2, <2>3 DEF Stops, Grows
<1> QED
  BY <1>1, <1>2

LEMMA StepsGrow ==
  ASSUME AcceptanceTypes, AcceptanceSteps
  PROVE  Grows
<1>1. GoesOn \/ Fails \/ Passes \/ Lacks \/ Skips
  BY CallCases DEF AcceptanceSteps
<1>2. ASSUME NEW how \in {"passed", "failed", "host", "raised"}, Ends(Current, how) PROVE Grows
  BY <1>2, EndsIs, GoesGrows, StopsGrows DEF AcceptanceTypes
<1>3. CASE GoesOn \/ Skips
  BY <1>3 DEF GoesOn, Skips, Grows, AcceptanceTypes
<1>4. CASE Fails
  BY <1>4, <1>2 DEF Fails
<1>5. CASE Passes
  BY <1>5, <1>2 DEF Passes
<1>6. CASE Lacks
  <2>1. PICK s : s # "none" /\ Goes(Current, s)
    BY <1>6 DEF Lacks
  <2> QED
    BY <2>1, GoesGrows DEF AcceptanceTypes
<1> QED
  BY <1>1, <1>3, <1>4, <1>5, <1>6

\* How a step of the calls goes on.
LEMMA PhaseGoes ==
  ASSUME AcceptanceTypes, AcceptanceSteps
  PROVE  /\ GoesOn \/ Fails \/ Passes \/ Lacks \/ Skips
         /\ Running /\ UNCHANGED <<profiles, expanded, lacks>>
         /\ GoesOn => phase' = phase /\ turn' = turn /\ step' = step + 1
         /\ Passes \/ Lacks => phase' = phase /\ turn' = turn + 1 /\ step' = 1 /\ aborted' = aborted
         /\ Skips => phase' = phase /\ turn' = turn + 1 /\ step' = step /\ aborted' = aborted
         /\ Fails => /\ step' = 1
                     /\ \/ /\ phase' = phase /\ turn' = turn + 1 /\ aborted' = aborted
                           /\ Current.onFail = "next"
                        \/ /\ Current.onFail = "abort" /\ phase' = "cleanup" /\ turn' = 1 /\
                                aborted' = TRUE
                        \/ /\ Current.onFail \notin {"next", "abort"} /\ phase' \in {"refused", "report"}
                           /\ turn' = 1 /\ aborted' = TRUE
         /\ DOMAIN set' = Fields
<1>1. GoesOn \/ Fails \/ Passes \/ Lacks \/ Skips
  BY CallCases DEF AcceptanceSteps
<1>2. Running /\ UNCHANGED <<profiles, expanded, lacks>>
  BY CallCases DEF AcceptanceSteps
<1>3. Passes \/ Lacks => phase' = phase /\ turn' = turn + 1 /\ step' = 1 /\ aborted' = aborted
  BY DEF Passes, Lacks, Ends, Goes
<1>4. Fails => /\ step' = 1
               /\ \/ /\ phase' = phase /\ turn' = turn + 1 /\ aborted' = aborted
                     /\ Current.onFail = "next"
                  \/ /\ Current.onFail = "abort" /\ phase' = "cleanup" /\ turn' = 1 /\ aborted' = TRUE
                  \/ /\ Current.onFail \notin {"next", "abort"} /\ phase' \in {"refused", "report"}
                     /\ turn' = 1 /\ aborted' = TRUE
  <2> SUFFICES ASSUME Fails, NEW how \in {"failed", "host", "raised"}, Ends(Current, how)
               PROVE  /\ step' = 1
                      /\ \/ /\ phase' = phase /\ turn' = turn + 1 /\ aborted' = aborted
                            /\ Current.onFail = "next"
                         \/ /\ Current.onFail = "abort" /\ phase' = "cleanup" /\ turn' = 1 /\
                                 aborted' = TRUE
                         \/ /\ Current.onFail \notin {"next", "abort"} /\ phase' \in {"refused", "report"}
                            /\ turn' = 1 /\ aborted' = TRUE
    BY DEF Fails
  <2> QED
    BY EndsIs, StopsGrows DEF Goes
<1>5. DOMAIN set' = Fields
  <2>1. DOMAIN set = Fields /\ DOMAIN Effect(Op, set) = Fields
    BY EffectIs DEF AcceptanceTypes
  <2>2. set' \in {set, Effect(Op, set)}
    BY <1>1 DEF GoesOn, Fails, Passes, Lacks, Skips
  <2> QED
    BY <2>1, <2>2
<1> QED
  BY <1>1, <1>2, <1>3, <1>4, <1>5 DEF GoesOn, Skips

LEMMA TypesKeep ==
  ASSUME AcceptanceTypes, AcceptanceSteps
  PROVE  AcceptanceTypes'
<1>1. DOMAIN row' = Tools
  BY StepsGrow DEF Grows
<1>2. turn' \in Nat \ {0} /\ step' \in Nat \ {0}
  <2>1. turn' \in {turn, turn + 1, 1} /\ step' \in {step, step + 1, 1}
    BY PhaseGoes, Zenon
  <2> QED
    BY <2>1 DEF AcceptanceTypes
<1>5. aborted' \in BOOLEAN
  BY PhaseGoes, Zenon DEF AcceptanceTypes, GoesOn
<1>6. phase' = phase \/ (phase' = "cleanup" /\ Current.onFail = "abort") \/ phase' \in {"refused",
        "report"}
  BY PhaseGoes, Zenon
<1>3. phase = "reads" => Current.onFail # "abort"
  BY PhaseGoes, CurrentIs DEF ReadOk
<1>4. phase' \in {"probes", "cleanup", "additions"} => "mutations" \in expanded
  BY <1>6, <1>3, PhaseGoes, CurrentIs DEF AcceptanceTypes, Running, Ending
<1> QED
  BY <1>1, <1>2, <1>4, <1>5, <1>6, PhaseGoes DEF AcceptanceTypes, Ending

\* The reads, and the probe before the mutations, change nothing.
LEMMA NothingChanges ==
  ASSUME AcceptanceTypes, AcceptanceSteps, \A f \in Fields : Old(f),
         step \in DOMAIN Current.calls => Changes(Op) = {}
  PROVE  \A f \in Fields : Old(f)'
<1>0. DOMAIN Current.calls = 1..Len(Current.calls) /\ Len(Current.calls) \in Nat
  BY PhaseGoes, CurrentIs DEF ReadOk, ProbeOk, RestoreOk, AdditionOk
<1>1. ASSUME step <= Len(Current.calls) PROVE \A f \in Fields : Effect(Op, set)[f] = "old"
  <2>1. Changes(Op) = {}
    BY <1>0, <1>1 DEF AcceptanceTypes
  <2>2. {"time", "playing"} \subseteq Fields
    BY DEF Fields
  <2> QED
    BY <2>1, <2>2, EffectIs DEF AcceptanceTypes, Old
<1>2. set' = set \/ (step <= Len(Current.calls) /\ set' = Effect(Op, set))
  BY PhaseGoes DEF GoesOn, Fails, Passes, Lacks, Skips
<1> QED
  BY <1>1, <1>2 DEF Old

LEMMA ReadsKeepSet ==
  ASSUME AcceptanceTypes, SetInv, AcceptanceSteps, phase = "reads"
  PROVE  SetInv'
<1>1. ReadOk(Current)
  BY PhaseGoes, CurrentIs
<1>2. step \in DOMAIN Current.calls => Changes(Op) = {}
  BY <1>1 DEF ReadOk, Op, Changes
<1>3. \A f \in Fields : Old(f)'
  BY <1>2, NothingChanges DEF SetInv, ReadsInv
<1>4. phase' \in {"reads", "refused", "report"}
  BY <1>1, PhaseGoes DEF ReadOk
<1>5. Watched \subseteq Fields
  BY DEF Watched, Made, Plain, Kept, Fields
<1> QED
  BY <1>3, <1>4, <1>5 DEF SetInv, ReadsInv, ProbesInv, CleanupInv, AdditionsInv, EndInv, Ending

LEMMA GoesRow ==
  ASSUME DOMAIN row = Tools, NEW p, NEW s, Goes(p, s)
  PROVE  /\ \A t \in Tools : t # p.tool \/ phase = "cleanup" => row'[t] = row[t]
         /\ phase # "cleanup" /\ p.tool \in Tools => row'[p.tool] = s
BY ToolsAre DEF Goes, Records

LEMMA StopsRow ==
  ASSUME NEW p, NEW how, Stops(p, how), NEW t \in Tools, row[t] # "none"
  PROVE  row'[t] = row[t]
<1>1. CASE p.onFail = "abort"
  BY <1>1 DEF Stops, Failing
<1>2. CASE p.onFail # "abort"
  <2> DEFINE r == Failing(Rows("mutations") \cup Rows("websocket_reads"))
  <2>2. DOMAIN r = Tools /\ r[t] = row[t]
    BY DEF Failing
  <2> HIDE DEF r
  <2>3. row' = [r EXCEPT !["quit_ableton"] = IF @ = "none" /\ ~QuitNamed THEN "manual" ELSE @]
    BY <1>2 DEF Stops, Outer, r
  <2> QED
    BY <2>2, <2>3
<1> QED
  BY <1>1, <1>2

\* A step at another probe leaves a row as it is.
LEMMA OtherRow ==
  ASSUME AcceptanceTypes, AcceptanceSteps, NEW t \in Tools, t # Current.tool, row[t] # "none"
  PROVE  row'[t] = row[t]
<1>1. GoesOn \/ Fails \/ Passes \/ Lacks \/ Skips
  BY PhaseGoes
<1>2. ASSUME NEW s, Goes(Current, s) PROVE row'[t] = row[t]
  BY <1>2, GoesRow DEF AcceptanceTypes
<1>3. ASSUME NEW how, Stops(Current, how) PROVE row'[t] = row[t]
  BY <1>3, StopsRow
<1>4. ASSUME NEW how \in {"passed", "failed", "host", "raised"}, Ends(Current, how) PROVE row'[t] = row[t]
  BY <1>2, <1>3, <1>4, EndsIs
<1> QED
  BY <1>1, <1>2, <1>4 DEF GoesOn, Fails, Passes, Lacks, Skips

\* A step at the probe of a tool.
LEMMA OwnRow ==
  ASSUME AcceptanceTypes, AcceptanceSteps, phase \in {"reads", "probes", "additions"},
         NEW t \in Tools, t = Current.tool, t \notin {"quit_ableton", "save_set"}
  PROVE  /\ Fails /\ Current.onFail = "next" => Bad(t)'
         /\ Passes => Rec(t)'
         /\ Lacks /\ Current.needs \notin Fixtures => Bad(t)'
<1>1. ASSUME NEW s, Goes(Current, s) PROVE row'[t] = s
  BY <1>1, GoesRow DEF AcceptanceTypes
<1>2. ASSUME Fails, Current.onFail = "next" PROVE Bad(t)'
  <2>1. PICK how \in {"failed", "host", "raised"} : Ends(Current, how)
    BY <1>2 DEF Fails
  <2>2. Goes(Current, Status(Current, how)) /\ Status(Current, how) \in {"host", "failed"}
    BY <1>2, <2>1, EndsIs DEF Status
  <2> QED
    BY <2>2, <1>1 DEF Bad
<1>3. ASSUME Passes PROVE Rec(t)'
  <2>1. Goes(Current, Status(Current, "passed"))
    BY <1>3, EndsIs DEF Passes
  <2>2. Status(Current, "passed") = "passed"
    BY DEF Status, Success
  <2> QED
    BY <2>1, <2>2, <1>1 DEF Rec
<1>4. ASSUME Lacks, Current.needs \notin Fixtures PROVE Bad(t)'
  BY <1>4, <1>1 DEF Lacks, Bad
<1> QED
  BY <1>2, <1>3, <1>4

\* What a step does to a field, and to what is remembered.
LEMMA FieldAfter ==
  ASSUME AcceptanceTypes, AcceptanceSteps, NEW f \in Fields \ {"time"}
  PROVE  \/ set'[f] = set[f]
         \/ /\ step \in DOMAIN Current.calls /\ f \in Changes(Op) /\ Selected(Current.group) /\
                 Met(Current)
            /\ set' = Effect(Op, set)
<1>0. DOMAIN Current.calls = 1..Len(Current.calls) /\ Len(Current.calls) \in Nat
  BY PhaseGoes, CurrentIs DEF ReadOk, ProbeOk, RestoreOk, AdditionOk
<1>1. \/ set' = set
      \/ step <= Len(Current.calls) /\ set' = Effect(Op, set) /\ Selected(Current.group) /\ Met(Current)
  BY PhaseGoes DEF GoesOn, Fails, Passes, Lacks, Skips
<1>2. f \notin Changes(Op) => Effect(Op, set)[f] = set[f]
  BY EffectIs DEF AcceptanceTypes
<1>3. step <= Len(Current.calls) => step \in DOMAIN Current.calls
  BY <1>0 DEF AcceptanceTypes
<1> QED
  BY <1>1, <1>2, <1>3

LEMMA OwedAfterIs ==
  ASSUME AcceptanceTypes, AcceptanceSteps, NEW x \in owed,
         step \in DOMAIN Current.calls /\ Op.op = "settle" => Op.field # x
  PROVE  x \in owed'
<1>0. DOMAIN Current.calls = 1..Len(Current.calls) /\ Len(Current.calls) \in Nat
  BY PhaseGoes, CurrentIs DEF ReadOk, ProbeOk, RestoreOk, AdditionOk
<1>1. CASE GoesOn
  <2>1. step \in DOMAIN Current.calls
    BY <1>0, <1>1 DEF GoesOn, AcceptanceTypes
  <2> QED
    BY <2>1, <1>1 DEF GoesOn, OwedAfter
<1>2. CASE ~GoesOn
  BY <1>2, PhaseGoes DEF Fails, Passes, Lacks, Skips
<1> QED
  BY <1>1, <1>2

LEMMA ProbeStep ==
  ASSUME AcceptanceTypes, AcceptanceSteps, phase = "probes"
  PROVE  /\ turn \in 1..39 /\ Current = Probes[turn] /\ ProbeOk(turn)
         /\ turn < 39 => Selected(Current.group) /\ ~Skips
         /\ \A f \in Watched : (Current.tool = Tool[f] <=> turn = At[f]) /\ Tool[f] \in Tools
         /\ \/ phase' = "probes" /\ turn' = turn /\ step' = step + 1 /\ GoesOn
            \/ phase' = "probes" /\ turn' = turn + 1 /\ ~GoesOn /\ (turn < 39 => step' = 1)
            \/ phase' = "cleanup" /\ turn' = 1 /\ step' = 1 /\ turn = 35 /\ Fails
            \/ phase' \in {"refused", "report"} /\ turn = 1 /\ Fails
<1>1. turn \in 1..39 /\ Current = Probes[turn] /\ ProbeOk(turn)
  BY PhaseGoes, CurrentIs
<1>2. ASSUME turn < 39 PROVE Selected(Current.group) /\ ~Skips
  <2>1. turn # 39
    BY <1>2, <1>1
  <2>2. Current.group = "mutations"
    BY <2>1, <1>1 DEF ProbeOk
  <2>3. Selected("mutations")
    BY ToolsAre DEF Selected, AcceptanceTypes
  <2> QED
    BY <2>2, <2>3 DEF Skips
<1>3. \A f \in Watched : (Current.tool = Tool[f] <=> turn = At[f]) /\ Tool[f] \in Tools
  BY <1>1, ToolsAre DEF ProbeOk
<1>4. Current.onFail = IF turn = 1 THEN "refuse" ELSE IF turn = 35 THEN "abort" ELSE "next"
  BY <1>1 DEF ProbeOk
<1>5. \/ phase' = "probes" /\ turn' = turn /\ step' = step + 1 /\ GoesOn
      \/ phase' = "probes" /\ turn' = turn + 1 /\ ~GoesOn /\ (turn < 39 => step' = 1)
      \/ phase' = "cleanup" /\ turn' = 1 /\ step' = 1 /\ turn = 35 /\ Fails
      \/ phase' \in {"refused", "report"} /\ turn = 1 /\ Fails
  <2>1. CASE GoesOn
    BY <2>1, PhaseGoes
  <2>2. CASE Fails
    <3>1. turn' = turn + 1 => ~GoesOn
      BY <1>1, PhaseGoes
    <3> QED
      BY <2>2, <3>1, <1>4, PhaseGoes
  <2>3. CASE Passes \/ Lacks
    <3>1. ~GoesOn
      BY <1>1, <2>3, PhaseGoes
    <3> QED
      BY <2>3, <3>1, PhaseGoes
  <2>4. CASE Skips
    <3>1. ~GoesOn
      BY <1>1, <2>4, PhaseGoes
    <3> QED
      BY <2>4, <3>1, <1>2, PhaseGoes
  <2> QED
    BY <2>1, <2>2, <2>3, <2>4, PhaseGoes
<1> QED
  BY <1>1, <1>2, <1>3, <1>5

LEMMA PlaceIs ==
  ASSUME NEW f \in Watched
  PROVE  /\ At[f] \in Nat /\ 2 <= At[f] /\ At[f] <= 38 /\ At[f] # 35 /\ At[f] # 39 /\ At[f] # 1
         /\ Tool[f] \in Tools /\ Tool[f] \notin {"none", "quit_ableton", "save_set"}
         /\ PlaceOk(f)
         /\ f \in Made \cup Plain => At[f] < 35
<1>1. PlaceOk(f)
  BY PlacesOk
<1>2. At[f] \in 2..38 /\ At[f] # 35
  BY <1>1 DEF PlaceOk
<1>3. \A x \in 2..38 : x \in Nat /\ 2 <= x /\ x <= 38 /\ x # 39 /\ x # 1
  OBVIOUS
<1>4. f \in Made \cup Plain => At[f] < 35
  BY <1>1 DEF PlaceOk
<1>5. Tool[f] \in Tools /\ Tool[f] \notin {"none", "quit_ableton", "save_set"}
  BY <1>1, ToolsAre DEF PlaceOk
<1> QED
  BY <1>1, <1>2, <1>3, <1>4, <1>5

\* The rows of the probes: kept by the other probes, and what their own says of them.
LEMMA ProbeRow ==
  ASSUME AcceptanceTypes, AcceptanceSteps, phase = "probes", NEW f \in Watched
  PROVE  /\ turn # At[f] => (Rec(Tool[f]) => Rec(Tool[f])') /\ (Bad(Tool[f]) => Bad(Tool[f])')
         /\ turn = At[f] => /\ Fails => Bad(Tool[f])'
                            /\ Passes => Rec(Tool[f])'
                            /\ Lacks /\ Current.needs \notin Fixtures => Bad(Tool[f])'
<1>1. Tool[f] \in Tools /\ Tool[f] \notin {"quit_ableton", "save_set"} /\ At[f] # 1 /\ At[f] # 35
  BY PlaceIs
<1>2. Current.tool = Tool[f] <=> turn = At[f]
  BY ProbeStep
<1>3. ASSUME turn # At[f], row[Tool[f]] # "none" PROVE row'[Tool[f]] = row[Tool[f]]
  BY <1>1, <1>2, <1>3, OtherRow
<1>4. ASSUME turn = At[f] PROVE Current.onFail = "next"
  BY <1>1, <1>4, ProbeStep DEF ProbeOk
<1>5. ASSUME turn = At[f] PROVE /\ Fails => Bad(Tool[f])'
                                /\ Passes => Rec(Tool[f])'
                                /\ Lacks /\ Current.needs \notin Fixtures => Bad(Tool[f])'
  BY <1>1, <1>2, <1>4, <1>5, OwnRow
<1>6. turn # At[f] => (Rec(Tool[f]) => Rec(Tool[f])') /\ (Bad(Tool[f]) => Bad(Tool[f])')
  BY <1>3 DEF Rec, Bad
<1> QED
  BY <1>5, <1>6

LEMMA MadeStep ==
  ASSUME AcceptanceTypes, SetInv, AcceptanceSteps, phase = "probes", turn # 1, NEW f \in Made
  PROVE  /\ turn' = At[f] /\ step' >= Gone[f] /\ phase' = "probes" => Old(f)'
         /\ turn > At[f] \/ (turn = At[f] /\ turn' = turn + 1) => Old(f)' \/ Bad(Tool[f])'
<1>1. f \in Watched /\ f \in Fields \ {"time"} /\ f \in Made \cup Plain
  BY DEF Watched, Made, Fields
<1>2. /\ PlaceOk(f) /\ At[f] \in Nat /\ 2 <= At[f] /\ At[f] < 35
      /\ turn = At[f] => Probes[turn].needs \in {"none", "create_clip"}
      /\ turn = At[f] => Len(Probes[turn].calls) \in Nat /\ Gone[f] \in Nat /\ 2 <= Gone[f]
                         /\ Gone[f] <= Len(Probes[turn].calls) + 1 /\
                              Probes[turn].calls[Gone[f] - 1] = Delete(f)
  <2>1. turn = At[f] => Len(Probes[turn].calls) \in Nat
    BY ProbeStep DEF ProbeOk
  <2>2. PlaceOk(f)
    BY <1>1, PlacesOk
  <2>3. At[f] \in Nat /\ 2 <= At[f] /\ At[f] < 35
    BY <1>1, PlaceIs
  <2> QED
    BY <1>1, <2>1, <2>2, <2>3 DEF PlaceOk
<1>3. /\ turn = At[f] /\ step >= Gone[f] => Old(f)
      /\ turn > At[f] => Old(f) \/ Bad(Tool[f])
  BY DEF SetInv, ProbesInv
<1>4. step \in DOMAIN Current.calls /\ f \in Changes(Op) => turn < At[f] \/ (turn = At[f] /\
        step < Gone[f])
  BY ProbeStep DEF ProbeOk, CallOk, Op
<1>5. set'[f] = set[f] \/ turn < At[f] \/ (turn = At[f] /\ step < Gone[f])
  BY <1>1, <1>4, FieldAfter
<1>6. step \in Nat /\ turn \in Nat
  BY DEF AcceptanceTypes
<1>7. ASSUME turn > At[f] PROVE Old(f)' \/ Bad(Tool[f])'
  <2>1. set'[f] = set[f]
    BY <1>5, <1>6, <1>7, <1>2
  <2>2. Bad(Tool[f]) => Bad(Tool[f])'
    BY <1>7, <1>1, <1>2, ProbeRow, <1>6
  <2> QED
    BY <1>3, <1>7, <2>1, <2>2 DEF Old
<1>8. ASSUME turn = At[f], turn' = turn + 1 PROVE Old(f)' \/ Bad(Tool[f])'
  <2>1. ~GoesOn /\ ~Skips
    BY <1>2, <1>6, <1>8, ProbeStep, PhaseGoes
  <2>2. CASE Fails
    BY <1>1, <1>8, <2>2, ProbeRow
  <2>3. CASE Passes
    <3>1. step > Len(Probes[turn].calls) /\ set' = set
      BY <2>3, ProbeStep DEF Passes
    <3>2. step >= Gone[f]
      BY <3>1, <1>2, <1>6, <1>8
    <3> QED
      BY <3>1, <3>2, <1>3, <1>8 DEF Old
  <2>4. CASE Lacks
    <3>1. Current.needs # "none"
      BY <2>4 DEF Lacks, Met
    <3>2. Current.needs = "create_clip"
      BY <3>1, <1>2, <1>8, ProbeStep
    <3> QED
      BY <3>2, <2>4, <1>1, <1>8, ProbeRow DEF Fixtures
  <2> QED
    BY <2>1, <2>2, <2>3, <2>4, PhaseGoes
<1>9. ASSUME turn' = At[f], step' >= Gone[f], phase' = "probes" PROVE Old(f)'
  <2>1. turn' = turn + 1 => step' = 1
    BY <1>2, <1>6, <1>9, ProbeStep
  <2>2. turn' = turn /\ step' = step + 1 /\ GoesOn /\ turn = At[f]
    <3>1. turn' # turn + 1
      <4>1. Gone[f] \in 2..Len(Probes[At[f]].calls) + 1
        BY <1>1, <1>2 DEF PlaceOk
      <4> QED
        BY <2>1, <1>9, <4>1
    <3> QED
      BY <3>1, <1>9, ProbeStep
  <2>3. CASE step >= Gone[f]
    BY <2>2, <2>3, <1>2, <1>3, <1>5, <1>6 DEF Old
  <2>4. CASE step < Gone[f]
    <3>1. step = Gone[f] - 1
      BY <2>2, <2>4, <1>2, <1>6, <1>9
    <3>2. Op = Delete(f)
      BY <3>1, <2>2, <1>2, ProbeStep DEF Op
    <3>3. Op.op = "remove" /\ Op.field = f /\ Op.value = "old"
      BY <3>2 DEF Delete, Call
    <3>4. set' = Effect(Op, set)
      BY <2>2 DEF GoesOn
    <3> QED
      BY <3>3, <3>4, <1>1, EffectIs DEF Old, AcceptanceTypes
  <2> QED
    BY <2>3, <2>4, <1>2, <1>6, <2>2
<1> QED
  BY <1>7, <1>8, <1>9

LEMMA PlainStep ==
  ASSUME AcceptanceTypes, SetInv, AcceptanceSteps, phase = "probes", NEW f \in Plain
  PROVE  turn > At[f] \/ (turn = At[f] /\ turn' = turn + 1) => Rec(Tool[f])'
<1>1. f \in Watched /\ f \in Made \cup Plain
  BY DEF Watched
<1>2. PlaceOk(f) /\ At[f] \in Nat /\ 2 <= At[f] /\ At[f] < 35 /\ turn \in Nat
  BY <1>1, PlaceIs DEF AcceptanceTypes
<1>3. turn = At[f] => Current.needs = "none"
  BY <1>2, ProbeStep DEF PlaceOk
<1>4. ASSUME turn > At[f] PROVE Rec(Tool[f])'
  <2>1. Rec(Tool[f])
    BY <1>4 DEF SetInv, ProbesInv
  <2>2. turn # At[f]
    BY <1>2, <1>4
  <2> QED
    BY <2>1, <2>2, <1>1, ProbeRow
<1>5. ASSUME turn = At[f], turn' = turn + 1 PROVE Rec(Tool[f])'
  <2>1. ~GoesOn /\ ~Skips
    BY <1>2, <1>5, ProbeStep, PhaseGoes
  <2>2. ~Lacks
    BY <1>3, <1>5 DEF Lacks, Met
  <2>3. Fails => Bad(Tool[f])'
    BY <1>1, <1>5, ProbeRow
  <2>4. Passes => Rec(Tool[f])'
    BY <1>1, <1>5, ProbeRow
  <2>5. Bad(Tool[f])' => Rec(Tool[f])'
    BY DEF Bad, Rec
  <2> QED
    BY <2>1, <2>2, <2>3, <2>4, <2>5, PhaseGoes
<1> QED
  BY <1>4, <1>5

LEMMA OwedStays ==
  ASSUME AcceptanceTypes, AcceptanceSteps, phase = "probes"
  PROVE  \A x \in owed : x # "cue" => x \in owed'
<1>1. step \in DOMAIN Current.calls /\ Op.op = "settle" => Op.field = "cue"
  BY ProbeStep DEF ProbeOk, CallOk, Op
<1> QED
  BY <1>1, OwedAfterIs

LEMMA RememberedStep ==
  ASSUME AcceptanceTypes, SetInv, AcceptanceSteps, phase = "probes", NEW f \in {"volume", "param"},
         phase' = "probes", turn' = At[f], step' >= 3
  PROVE  f \in owed'
<1>1. f \in Watched /\ f # "cue" /\ f \notin Fixtures
  BY DEF Watched, Made, Kept, Fixtures
<1>2. PlaceOk(f) /\ At[f] \in Nat /\ 2 <= At[f] /\ At[f] <= 38 /\ turn \in Nat /\ step \in Nat /\ step # 0
  BY <1>1, PlaceIs DEF AcceptanceTypes
<1>3. turn' = turn + 1 => step' = 1
  BY <1>2, ProbeStep
<1>4. turn' = turn /\ step' = step + 1 /\ GoesOn
  BY <1>3, ProbeStep
<1>5. CASE step >= 3
  <2>1. f \in owed
    BY <1>4, <1>5 DEF SetInv, ProbesInv
  <2> QED
    BY <2>1, <1>1, OwedStays
<1>6. CASE step = 2
  <2>1. Op = Owe(f)
    BY <1>4, <1>6, <1>2, ProbeStep DEF Op, PlaceOk
  <2>2. Op.op = "owe" /\ Op.field = f
    BY <2>1 DEF Owe, Call
  <2> QED
    BY <2>2, <1>4, <1>1 DEF GoesOn, OwedAfter, AcceptanceTypes
<1> QED
  BY <1>2, <1>4, <1>5, <1>6

LEMMA KeptStep ==
  ASSUME AcceptanceTypes, SetInv, AcceptanceSteps, phase = "probes", turn # 1, NEW f \in Kept
  PROVE  \/ Old(f)'
         \/ /\ f \in owed' /\ (f = "param" => "parameter" \in owed')
            /\ turn >= At[f] /\ (turn > At[f] \/ turn' = turn + 1 => Rec(Tool[f])')
<1>1. f \in Watched /\ f # "cue" /\ f \in Fields \ {"time"}
  BY DEF Watched, Made, Kept, Fields
<1>2. PlaceOk(f) /\ At[f] \in Nat /\ 2 <= At[f] /\ At[f] <= 38 /\ turn \in Nat /\ step \in Nat
  BY <1>1, PlaceIs DEF AcceptanceTypes
<1>3. \/ Old(f)
      \/ /\ f \in owed /\ (f = "param" => "parameter" \in owed)
         /\ turn >= At[f] /\ (turn > At[f] => Rec(Tool[f]))
  BY DEF SetInv, ProbesInv
<1>4. turn = At[f] =>
        Current.needs = IF f = "warp" THEN "warp" ELSE IF f = "param" THEN "parameter" ELSE "none"
  BY <1>2, ProbeStep DEF PlaceOk, Kept
<1>5. Met(Current) /\ turn = At[f] => (f = "warp" => f \in owed) /\ (f = "param" => "parameter" \in owed)
  BY <1>4, ToolsAre DEF Met, Passed, Kept
<1>6. CASE set'[f] = set[f]
  <2>1. CASE ~Old(f)
    <3>1. f \in owed' /\ (f = "param" => "parameter" \in owed')
      BY <1>1, <1>3, <2>1, OwedStays
    <3>2. turn >= At[f] /\ (turn > At[f] => Rec(Tool[f])')
      BY <1>1, <1>2, <1>3, <2>1, ProbeRow
    <3>3. ASSUME turn = At[f], turn' = turn + 1 PROVE Rec(Tool[f])'
      <4>1. ~GoesOn /\ ~Skips
        <5>1. turn < 39
          BY <1>2, <3>3
        <5> QED
          BY <5>1, <1>2, <3>3, ProbeStep, PhaseGoes
      <4>2. ~Lacks
        BY <1>3, <1>4, <2>1, <3>3 DEF Lacks, Met, Kept
      <4>3. Fails => Bad(Tool[f])'
        BY <1>1, <3>3, ProbeRow
      <4>4. Passes => Rec(Tool[f])'
        BY <1>1, <3>3, ProbeRow
      <4>5. Bad(Tool[f])' => Rec(Tool[f])'
        BY DEF Bad, Rec
      <4> QED
        BY <4>1, <4>2, <4>3, <4>4, <4>5, PhaseGoes
    <3> QED
      BY <3>1, <3>2, <3>3, <1>2
  <2>2. CASE Old(f)
    BY <1>6, <2>2 DEF Old
  <2> QED
    BY <2>1, <2>2
<1>7. CASE /\ step \in DOMAIN Current.calls /\ f \in Changes(Op) /\ Selected(Current.group) /\
              Met(Current)
           /\ set' = Effect(Op, set)
  <2>1. turn = At[f] /\ (f # "warp" => step >= 3)
    BY <1>7, ProbeStep DEF ProbeOk, CallOk, Op
  <2>2. f \in owed /\ (f = "param" => "parameter" \in owed)
    BY <2>1, <1>5, <1>7 DEF SetInv, ProbesInv, Kept
  <2>3. f \in owed' /\ (f = "param" => "parameter" \in owed')
    BY <1>1, <2>2, OwedStays
  <2>4. ASSUME turn' = turn + 1 PROVE Rec(Tool[f])'
    <3>1. Fails
      <4>1. ~GoesOn /\ ~Skips
        <5>1. turn < 39
          BY <1>2, <2>1
        <5> QED
          BY <5>1, <1>2, <2>4, ProbeStep, PhaseGoes
      <4>2. ~Lacks
        BY <1>7 DEF Lacks
      <4>3. ~Passes
        BY <1>7, ProbeStep, <1>2 DEF Passes, ProbeOk
      <4> QED
        BY <4>1, <4>2, <4>3, PhaseGoes
    <3> QED
      BY <3>1, <1>1, <2>1, ProbeRow DEF Bad, Rec
  <2> QED
    BY <2>1, <2>3, <2>4, <1>2
<1> QED
  BY <1>1, <1>6, <1>7, FieldAfter

LEMMA StructuralStep ==
  ASSUME AcceptanceTypes, SetInv, AcceptanceSteps, phase = "probes", NEW f \in Structural
  PROVE  Old(f)'
<1>1. f \in Fields \ {"time"}
  BY DEF Structural, Fields
<1>2. step \in DOMAIN Current.calls => f \notin Changes(Op)
  BY ProbeStep DEF ProbeOk, CallOk, Op
<1> QED
  BY <1>1, <1>2, FieldAfter DEF SetInv, ProbesInv, Old

LEMMA FirstProbe ==
  ASSUME AcceptanceTypes, SetInv, AcceptanceSteps, phase = "probes", turn = 1
  PROVE  (\A f \in Fields : Old(f)') /\ phase' \in {"probes", "refused", "report"} /\
     (phase' = "probes" => turn' \in {1, 2})
<1>1. \A f \in Fields : Old(f)
  BY DEF SetInv, ProbesInv
<1>2. step \in DOMAIN Current.calls => Changes(Op) = {}
  BY ProbeStep DEF ProbeOk, Op
<1> QED
  BY <1>1, <1>2, NothingChanges, ProbeStep

LEMMA LastStep ==
  ASSUME AcceptanceTypes, SetInv, AcceptanceSteps, phase = "probes", phase' = "probes"
  PROVE  turn' > 38 => step' = 1
<1>1. Len(Probes[39].calls) = 0
  BY ProbesAre DEF QuitRow, In, Probe
<1>2. turn \in Nat /\ turn <= 39 /\ step \in Nat /\ step # 0
  BY ProbeStep DEF AcceptanceTypes
<1>3. ASSUME turn = 39 PROVE step' = 1
  <2>1. ~GoesOn
    BY <1>1, <1>2, <1>3, ProbeStep DEF GoesOn
  <2>2. step = 1
    BY <1>3 DEF SetInv, ProbesInv
  <2> QED
    BY <2>1, <2>2, PhaseGoes
<1>4. ASSUME turn < 39, turn' > 38 PROVE step' = 1
  BY <1>2, <1>4, ProbeStep
<1> QED
  BY <1>2, <1>3, <1>4

LEMMA ProbesKeepSet ==
  ASSUME AcceptanceTypes, SetInv, AcceptanceSteps, phase = "probes"
  PROVE  SetInv'
<1>0. Made \subseteq Watched /\ Plain \subseteq Watched /\ Kept \subseteq Watched /\
        Structural \subseteq Fields
      /\ Watched \subseteq Fields /\ {"volume", "param"} \subseteq Watched
  BY DEF Watched, Made, Plain, Kept, Structural, Fields
<1>1. CASE turn = 1
  <2>1. (\A f \in Fields : Old(f)') /\ phase' \in {"probes", "refused", "report"} /\
          (phase' = "probes" => turn' \in {1, 2})
    BY <1>1, FirstProbe
  <2>2. \A f \in Watched : At[f] \in Nat /\ At[f] >= 2
    BY PlaceIs
  <2>3. ASSUME phase' = "probes", NEW f \in {"volume", "param"}, turn' = At[f],
          step' >= 3 PROVE f \in owed'
    BY <2>3, RememberedStep
  <2>4. ReadsInv' /\ CleanupInv' /\ AdditionsInv' /\ EndInv'
    BY <2>1, <1>0 DEF ReadsInv, CleanupInv, AdditionsInv, EndInv
  <2>5. \A f \in Watched : phase' = "probes" => ~(turn' > At[f])
    BY <2>1, <2>2
  <2>6. ProbesInv'
    BY <2>1, <2>3, <2>5, <1>0, LastStep DEF ProbesInv
  <2> QED
    BY <2>4, <2>6 DEF SetInv
<1>2. CASE turn # 1 /\ phase' = "probes"
  <2>0. /\ turn \in Nat /\ turn > 1 /\ turn' \in {turn, turn + 1}
        /\ \A f \in Watched : At[f] \in Nat
    BY <1>2, ProbeStep, PlaceIs DEF AcceptanceTypes
  <2>1. ASSUME NEW f \in Made PROVE /\ turn' = At[f] /\ step' >= Gone[f] => Old(f)'
                                    /\ turn' > At[f] => Old(f)' \/ Bad(Tool[f])'
    BY <1>2, <2>0, <1>0, MadeStep
  <2>2. ASSUME NEW f \in Plain PROVE turn' > At[f] => Rec(Tool[f])'
    BY <1>2, <2>0, <1>0, PlainStep
  <2>3. ASSUME NEW f \in {"volume", "param"} PROVE turn' = At[f] /\ step' >= 3 => f \in owed'
    BY <1>2, RememberedStep
  <2>4. ASSUME NEW f \in Kept PROVE \/ Old(f)'
                                    \/ /\ f \in owed' /\ (f = "param" => "parameter" \in owed')
                                       /\ turn' >= At[f] /\ (turn' > At[f] => Rec(Tool[f])')
    BY <1>2, <2>0, <1>0, KeptStep
  <2>5. \A f \in Structural : Old(f)'
    BY StructuralStep
  <2>6. turn' # 1
    BY <2>0
  <2>7. ProbesInv'
    BY <1>2, <2>1, <2>2, <2>3, <2>4, <2>5, <2>6, LastStep DEF ProbesInv
  <2> QED
    BY <1>2, <2>7 DEF SetInv, ReadsInv, CleanupInv, AdditionsInv, EndInv, Ending
<1>3. CASE phase' = "cleanup"
  <2>1. turn = 35 /\ turn' = 1 /\ step' = 1
    BY <1>3, ProbeStep
  <2>2. \A f \in Made : Old(f)' \/ Bad(Tool[f])'
    BY <2>1, <1>0, MadeStep, PlaceIs
  <2>3. \A f \in Plain : Rec(Tool[f])'
    BY <2>1, <1>0, PlainStep, PlaceIs
  <2>4. \A f \in Kept : Old(f)' \/ (f \in owed' /\ Rec(Tool[f])')
    BY <2>1, <1>0, KeptStep, PlaceIs
  <2>5. \A f \in Structural : Old(f)'
    BY StructuralStep
  <2>6. CleanupInv'
    BY <2>1, <2>2, <2>3, <2>4, <2>5 DEF CleanupInv
  <2> QED
    BY <1>3, <2>6 DEF SetInv, ReadsInv, ProbesInv, AdditionsInv, EndInv, Ending
<1> QED
  BY <1>1, <1>2, <1>3, ProbeStep

LEMMA CleanupStep ==
  ASSUME AcceptanceTypes, AcceptanceSteps, phase = "cleanup"
  PROVE  /\ turn \in 1..12 /\ Current = Restores[turn] /\ RestoreOk(turn)
         /\ phase' = "cleanup" /\ owed' = owed /\ \A t \in Tools : row'[t] = row[t]
         /\ \/ /\ GoesOn /\ turn' = turn /\ step' = step + 1 /\ step \in 1..2 /\ broken' = broken
               /\ set' = Effect(Op, set)
            \/ /\ Fails /\ turn' = turn + 1 /\ step' = 1 /\ broken' = broken \cup {Tool[Order[turn]]}
            \/ /\ Passes /\ turn' = turn + 1 /\ step' = 1 /\ broken' = broken /\ set' = set /\ step > 2
            \/ /\ Lacks /\ turn' = turn + 1 /\ step' = 1 /\ broken' = broken /\ set' = set
               /\ Order[turn] \notin Plain /\ Order[turn] \notin owed
         /\ \A g \in Fields \ {"time"} : set'[g] = set[g] \/ (g = Order[turn] /\ Old(g)')
<1>1. turn \in 1..12 /\ Current = Restores[turn] /\ RestoreOk(turn)
  BY PhaseGoes, CurrentIs
<1>2. /\ Len(Current.calls) = 2 /\ Current.onFail = "next" /\ Current.tool = Tool[Order[turn]]
      /\ Current.group = "mutations" /\ DOMAIN Current.calls = 1..2
      /\ Current.calls[1] = Write(Order[turn], "old") /\ Current.calls[2] = Expect(Order[turn], "old")
      /\ Current.needs = IF Order[turn] \in Plain THEN "none" ELSE Order[turn]
  BY <1>1 DEF RestoreOk
<1>3. ~Skips
  <2>1. Selected("mutations")
    BY ToolsAre DEF Selected, AcceptanceTypes
  <2> QED
    BY <2>1, <1>2 DEF Skips
<1>4. phase' = "cleanup"
  BY <1>2, PhaseGoes
<1>5. \A t \in Tools : row'[t] = row[t]
  <2>1. ASSUME NEW p, NEW s, Goes(p, s) PROVE row' = row
    BY <2>1 DEF Goes, Records
  <2>2. GoesOn \/ Fails \/ Passes \/ Lacks
    BY <1>3, PhaseGoes
  <2>3. ASSUME NEW how \in {"passed", "failed", "host", "raised"}, Ends(Current, how) PROVE row' = row
    BY <2>1, <2>3, <1>2, EndsIs
  <2> QED
    BY <2>1, <2>2, <2>3 DEF GoesOn, Fails, Passes, Lacks
<1>6. step \in 1..2 => Op.op \in {"write", "expect"} /\ Op.field = Order[turn] /\ Op.value = "old"
  BY <1>2 DEF Op, Write, Expect, Call
<1>7. owed' = owed
  <2>1. CASE GoesOn
    <3>1. step \in 1..2
      BY <2>1, <1>2 DEF GoesOn, AcceptanceTypes
    <3> QED
      BY <2>1, <3>1, <1>6 DEF GoesOn, OwedAfter
  <2> QED
    BY <2>1, <1>3, PhaseGoes DEF Fails, Passes, Lacks
<1>8. /\ \/ /\ GoesOn /\ turn' = turn /\ step' = step + 1 /\ step \in 1..2 /\ broken' = broken
            /\ set' = Effect(Op, set)
         \/ /\ Fails /\ turn' = turn + 1 /\ step' = 1 /\ broken' = broken \cup {Tool[Order[turn]]}
         \/ /\ Passes /\ turn' = turn + 1 /\ step' = 1 /\ broken' = broken /\ set' = set /\ step > 2
         \/ /\ Lacks /\ turn' = turn + 1 /\ step' = 1 /\ broken' = broken /\ set' = set
            /\ Order[turn] \notin Plain /\ Order[turn] \notin owed
  <2>1. CASE GoesOn
    BY <2>1, <1>2, PhaseGoes DEF GoesOn, AcceptanceTypes
  <2>2. CASE Fails
    <3>1. broken' = broken \cup {Tool[Order[turn]]}
      BY <2>2, <1>2, EndsIs DEF Fails
    <3> QED
      BY <2>2, <3>1, <1>2, PhaseGoes
  <2>3. CASE Passes
    <3>1. broken' = broken
      BY <2>3, EndsIs DEF Passes
    <3> QED
      BY <2>3, <3>1, <1>2, PhaseGoes DEF Passes
  <2>4. CASE Lacks
    <3>1. Order[turn] \notin Plain /\ Order[turn] \notin owed
      BY <2>4, <1>2 DEF Lacks, Met
    <3> QED
      BY <2>4, <3>1, PhaseGoes DEF Lacks
  <2> QED
    BY <2>1, <2>2, <2>3, <2>4, <1>3, PhaseGoes
<1>9. ASSUME NEW g \in Fields \ {"time"} PROVE set'[g] = set[g] \/ (g = Order[turn] /\ Old(g)')
  <2>1. CASE set'[g] # set[g]
    <3>1. step \in 1..2 /\ g \in Changes(Op) /\ set' = Effect(Op, set)
      BY <2>1, <1>2, FieldAfter
    <3>2. g = Order[turn] /\ Op.op = "write" /\ Op.value = "old" /\ Op.field = g
      BY <3>1, <1>6 DEF Changes
    <3> QED
      BY <3>1, <3>2, EffectIs DEF Old, AcceptanceTypes
  <2> QED
    BY <2>1
<1> QED
  BY <1>1, <1>4, <1>5, <1>7, <1>8, <1>9

LEMMA RestoreStep ==
  ASSUME AcceptanceTypes, SetInv, AcceptanceSteps, phase = "cleanup", NEW i \in 1..12 \ {7}
  PROVE  /\ i < turn' => Old(Order[i])' \/ Tool[Order[i]] \in broken'
         /\ i = turn' /\ step' = 2 =>
              \/ Old(Order[i])' /\ (i = 6 => set'["playing"] # "new")
              \/ i = 6 /\ set'["playing"] = "new" /\ set'["time"] = "other"
         /\ i = turn' /\ step' > 2 => Old(Order[i])' /\ (i = 6 => set'["playing"] # "new")
         /\ turn' > 6 /\ Tool["time"] \notin broken' => set'["playing"] # "new"
<1>1. /\ i < turn => Old(Order[i]) \/ Tool[Order[i]] \in broken
      /\ i = turn /\ step = 2 =>
              \/ Old(Order[i]) /\ (i = 6 => set["playing"] # "new")
              \/ i = 6 /\ set["playing"] = "new" /\ set["time"] = "other"
      /\ i = turn /\ step > 2 => Old(Order[i]) /\ (i = 6 => set["playing"] # "new")
      /\ turn > 6 /\ Tool["time"] \notin broken => set["playing"] # "new"
      /\ \A f \in Kept : Old(f) \/ f \in owed
  BY DEF SetInv, CleanupInv
<1>2. /\ Order[i] \in Fields /\ (Order[i] = "time" <=> i = 6) /\ Order[6] = "time"
      /\ (Order[turn] = "playing" <=> turn = 1) /\ (Order[turn] = Order[i] => i = turn)
      /\ "playing" \in Fields \ {"time"} /\ "time" \in Plain /\ Order[i] \in Plain \cup Kept
  BY OrderIs, CleanupStep DEF Plain, Kept, Fields
<1>3. step \in Nat /\ turn \in 1..12 /\ i \in 1..12
  BY CleanupStep DEF AcceptanceTypes
<1>4. turn # 1 => set'["playing"] = set["playing"]
  BY <1>2, CleanupStep
<1>5. broken \subseteq broken'
  BY CleanupStep
<1>6. turn' > 6 /\ Tool["time"] \notin broken' => set'["playing"] # "new"
  <2>1. CASE turn > 6
    BY <2>1, <1>1, <1>3, <1>4, <1>5
  <2>2. CASE turn <= 6 /\ turn' > 6
    <3>1. turn = 6 /\ turn' = turn + 1
      BY <2>2, <1>3, CleanupStep
    <3>2. ASSUME Passes PROVE set'["playing"] # "new"
      <4>1. step > 2 /\ set' = set
        BY <3>2, CleanupStep DEF Passes, RestoreOk
      <4> QED
        BY <3>1, <4>1, <1>3 DEF SetInv, CleanupInv
    <3> QED
      BY <3>1, <3>2, <1>2, <1>3, CleanupStep
  <2> QED
    BY <2>1, <2>2, <1>3
<1>7. ASSUME i = turn', step' > 1
      PROVE  i = turn /\ turn' = turn /\ step \in 1..2 /\ step' = step + 1 /\ GoesOn /\
         set' = Effect(Op, set)
  BY <1>3, <1>7, CleanupStep
<1>8. ASSUME i = turn', step' = 2
      PROVE  \/ Old(Order[i])' /\ (i = 6 => set'["playing"] # "new")
             \/ i = 6 /\ set'["playing"] = "new" /\ set'["time"] = "other"
  <2>1. i = turn /\ step = 1 /\ set' = Effect(Op, set)
    BY <1>7, <1>8
  <2>2. Op.op = "write" /\ Op.field = Order[i] /\ Op.value = "old"
    BY <2>1, CleanupStep DEF RestoreOk, Op, Write, Call
  <2>3. CASE i # 6
    BY <2>1, <2>2, <2>3, <1>2, EffectIs DEF Old, AcceptanceTypes
  <2>4. CASE i = 6
    BY <2>1, <2>2, <2>4, <1>2, EffectIs DEF Old, AcceptanceTypes
  <2> QED
    BY <2>3, <2>4
<1>9. ASSUME i = turn', step' > 2
      PROVE  Old(Order[i])' /\ (i = 6 => set'["playing"] # "new")
  <2>0. \A x \in 1..2 : x = 1 \/ x = 2
    OBVIOUS
  <2>1. i = turn /\ step = 2 /\ set' = Effect(Op, set) /\ GoesOn
    <3>1. step' \in Nat
      BY TypesKeep DEF AcceptanceTypes
    <3>2. step' > 1
      BY <3>1, <1>9
    <3> QED
      BY <1>7, <1>9, <2>0, <3>2
  <2>2. Op.op = "expect" /\ Op.field = Order[i] /\ Op.value = "old"
    BY <2>1, CleanupStep DEF RestoreOk, Op, Expect, Call
  <2>3. Old(Order[i])
    BY <2>1, <2>2 DEF GoesOn, Answered, Old
  <2>4. Changes(Op) = {}
    BY <2>2 DEF Changes
  <2>5. CASE i # 6
    BY <2>1, <2>3, <2>4, <2>5, <1>2, EffectIs DEF Old, AcceptanceTypes
  <2>6. CASE i = 6
    <3>1. set["time"] = "old" /\ set["playing"] # "new"
      BY <2>1, <2>3, <2>6, <1>1, <1>2 DEF Old
    <3> QED
      BY <2>1, <2>4, <2>6, <3>1, <1>2, EffectIs DEF Old, AcceptanceTypes
  <2> QED
    BY <2>5, <2>6
<1>10. ASSUME i < turn' PROVE Old(Order[i])' \/ Tool[Order[i]] \in broken'
  <2>1. CASE i < turn /\ i # 6
    <3>1. set'[Order[i]] = set[Order[i]] \/ Old(Order[i])'
      BY <2>1, <1>2, CleanupStep
    <3> QED
      BY <2>1, <3>1, <1>1, <1>5 DEF Old
  <2>2. CASE i < turn /\ i = 6
    <3>1. CASE Tool["time"] \in broken
      BY <3>1, <2>2, <1>2, <1>5
    <3>2. CASE Tool["time"] \notin broken
      <4>1. set["playing"] # "new" /\ set["time"] = "old"
        BY <2>2, <3>2, <1>1, <1>2, <1>3 DEF Old
      <4>2. set'["playing"] # "new"
        BY <2>2, <4>1, <1>3, <1>4
      <4>3. set' \in {set, Effect(Op, set)}
        BY PhaseGoes DEF GoesOn, Fails, Passes, Lacks, Skips
      <4>4. step \in 1..2 => "time" \notin Changes(Op)
        <5>1. step \in 1..2 => Op.op \in {"write", "expect"} /\ Op.field = Order[turn]
          BY CleanupStep DEF RestoreOk, Op, Write, Expect, Call
        <5>2. Order[turn] # "time"
          BY <2>2, <1>2, <1>3
        <5> QED
          BY <5>1, <5>2 DEF Changes
      <4>5. set' = set \/ step \in 1..2
        <5>1. Fails => step \in 1..2
          BY CleanupStep DEF Fails, RestoreOk, AcceptanceTypes
        <5> QED
          BY <5>1, CleanupStep
      <4> QED
        BY <2>2, <4>1, <4>2, <4>3, <4>4, <4>5, <1>2, EffectIs DEF Old, AcceptanceTypes
    <3> QED
      BY <3>1, <3>2
  <2>3. CASE i = turn
    <3>1. turn' = turn + 1
      BY <1>10, <2>3, <1>3, CleanupStep
    <3>2. CASE broken' = broken \cup {Tool[Order[turn]]}
      BY <2>3, <3>2
    <3>3. CASE set' = set /\ step > 2
      BY <2>3, <3>3, <1>1 DEF Old
    <3>4. CASE set' = set /\ Order[turn] \notin Plain /\ Order[turn] \notin owed
      BY <2>3, <3>4, <1>1, <1>2 DEF Old
    <3> QED
      BY <3>1, <3>2, <3>3, <3>4, <1>3, CleanupStep
  <2> QED
    BY <2>1, <2>2, <2>3, <1>3, <1>10, CleanupStep
<1> QED
  BY <1>6, <1>8, <1>9, <1>10, <1>7

LEMMA CleanupKeepsSet ==
  ASSUME AcceptanceTypes, SetInv, AcceptanceSteps, phase = "cleanup"
  PROVE  SetInv'
<1>1. /\ phase' = "cleanup" /\ owed' = owed /\ \A t \in Tools : row'[t] = row[t]
      /\ \A g \in Fields \ {"time"} : Old(g) => Old(g)'
  BY CleanupStep DEF Old
<1>2. Watched \subseteq Fields /\ \A f \in Made \cup Kept \cup Structural : f \in Fields \ {"time"}
  BY DEF Watched, Made, Plain, Kept, Fields, Structural
<1>3. \A f \in Watched : (Bad(Tool[f])' <=> Bad(Tool[f])) /\ (Rec(Tool[f])' <=> Rec(Tool[f]))
  BY <1>1, ToolsAre DEF Bad, Rec
<1>4. Made \subseteq Watched /\ Plain \subseteq Watched /\ Kept \subseteq Watched
  BY DEF Watched
<1>5. \A f \in Made : Old(f)' \/ Bad(Tool[f])'
  BY <1>1, <1>2, <1>3, <1>4 DEF SetInv, CleanupInv
<1>6. \A f \in Plain : Rec(Tool[f])'
  BY <1>3, <1>4 DEF SetInv, CleanupInv
<1>7. \A f \in Kept : Old(f)' \/ (f \in owed' /\ Rec(Tool[f])')
  BY <1>1, <1>2, <1>3, <1>4 DEF SetInv, CleanupInv
<1>8. \A f \in Structural : Old(f)'
  BY <1>1, <1>2 DEF SetInv, CleanupInv
<1>9. ASSUME NEW i \in 1..12 \ {7}
      PROVE  /\ i < turn' => Old(Order[i])' \/ Tool[Order[i]] \in broken'
             /\ i = turn' /\ step' = 2 =>
                  \/ Old(Order[i])' /\ (i = 6 => set'["playing"] # "new")
                  \/ i = 6 /\ set'["playing"] = "new" /\ set'["time"] = "other"
             /\ i = turn' /\ step' > 2 => Old(Order[i])' /\ (i = 6 => set'["playing"] # "new")
             /\ turn' > 6 /\ Tool["time"] \notin broken' => set'["playing"] # "new"
  BY RestoreStep
<1>10. CleanupInv'
  BY <1>5, <1>6, <1>7, <1>8, <1>9 DEF CleanupInv
<1> QED
  BY <1>1, <1>10 DEF SetInv, ReadsInv, ProbesInv, AdditionsInv, EndInv, Ending

LEMMA AdditionsKeepSet ==
  ASSUME AcceptanceTypes, SetInv, AcceptanceSteps, phase = "additions"
  PROVE  SetInv'
<1>1. turn \in 1..3 /\ AdditionOk(turn) /\ Current = Additions[turn]
  BY PhaseGoes, CurrentIs
<1>2. phase' = "additions"
  BY <1>1, PhaseGoes DEF AdditionOk
<1>3. \A f \in Watched : Tool[f] \in Tools /\ Tool[f] # Current.tool
  BY <1>1, ToolsAre DEF AdditionOk
<1>4. \A f \in Watched : Bad(Tool[f]) => Bad(Tool[f])'
  BY <1>3, OtherRow DEF Bad
<1>5. Watched \subseteq Fields /\ Watched \cap Structural = {} /\ "playing" \in Watched /\
        "time" \in Watched
      /\ "time" \in Plain /\ "playing" \in Plain
      /\ Plain \subseteq Watched /\ Made \subseteq Watched /\ Kept \subseteq Watched /\ "time" \notin Made
  BY DEF Watched, Made, Plain, Kept, Fields, Structural
<1>6. step \in DOMAIN Current.calls => Changes(Op) \subseteq Structural
  BY <1>1 DEF AdditionOk, Op
<1>7. ASSUME NEW f \in Watched, f # "time" PROVE set'[f] = set[f]
  BY <1>5, <1>6, <1>7, FieldAfter
<1>8. Old("time")'
  <2>1. set["time"] = "old" /\ set["playing"] = "old"
    BY <1>2, <1>5 DEF SetInv, AdditionsInv, Old
  <2>2. set' = set \/ (step \in DOMAIN Current.calls /\ set' = Effect(Op, set))
    <3>1. step <= Len(Current.calls) => step \in DOMAIN Current.calls
      BY <1>1 DEF AdditionOk, AcceptanceTypes
    <3> QED
      BY <3>1, PhaseGoes DEF GoesOn, Fails, Passes, Lacks, Skips
  <2>3. set'["playing"] = "old"
    BY <2>1, <1>5, <1>7
  <2> QED
    BY <2>1, <2>2, <2>3, <1>5, <1>6, EffectIs DEF Old, AcceptanceTypes
<1>9. \A f \in Plain \cup Kept : Old(f)'
  BY <1>5, <1>7, <1>8 DEF SetInv, AdditionsInv, Old
<1>10. \A f \in Made : Old(f)' \/ Bad(Tool[f])'
  BY <1>4, <1>5, <1>7 DEF SetInv, AdditionsInv, Old
<1>11. AdditionsInv'
  BY <1>9, <1>10 DEF AdditionsInv
<1> QED
  BY <1>2, <1>11 DEF SetInv, ReadsInv, ProbesInv, CleanupInv, EndInv, Ending

LEMMA InitAcceptance == AcceptanceInit => AcceptanceInv
<1> SUFFICES ASSUME AcceptanceInit PROVE AcceptanceInv
  OBVIOUS
<1> USE DEF AcceptanceInit
<1>1. PICK s \in Selections : profiles = s[1] /\ lacks = s[2]
  OBVIOUS
<1>2. expanded \subseteq Groups /\ lacks \subseteq Fixtures
  BY <1>1, SelectionsTyped DEF Profiles, expanded
<1>3. AcceptanceTypes
  <2>1. aborted \in BOOLEAN
    BY Zenon
  <2>2. DOMAIN set = Fields /\ DOMAIN row = Tools
    OBVIOUS
  <2>3. phase = "reads" /\ turn = 1 /\ step = 1
    OBVIOUS
  <2> HIDE DEF AcceptanceInit
  <2> QED
    BY <1>2, <2>1, <2>2, <2>3 DEF AcceptanceTypes
<1>4. SetInv
  BY DEF SetInv, ReadsInv, ProbesInv, CleanupInv, AdditionsInv, EndInv, Ending, Old
<1>5. RowsInv
  BY ReadsAre DEF RowsInv, Recorded, Ending
<1> QED
  BY <1>3, <1>4, <1>5 DEF AcceptanceInv

Starts == StartMutations \/ StartCleanup \/ EndCleanup \/ EndAdditions \/ Finish
LEMMA StartsKeepTypes ==
  ASSUME AcceptanceTypes, Starts
  PROVE  AcceptanceTypes'
<1> USE DEF AcceptanceTypes, Ending
<1>1. CASE StartMutations
  BY <1>1 DEF StartMutations, expanded
<1>2. CASE StartCleanup
  BY <1>2 DEF StartCleanup, expanded
<1>3. CASE EndCleanup
  BY <1>3 DEF EndCleanup, Downgraded, expanded
<1>4. CASE EndAdditions
  BY <1>4 DEF EndAdditions, expanded
<1>5. CASE Finish
  BY <1>5 DEF Finish, expanded
<1> QED
  BY <1>1, <1>2, <1>3, <1>4, <1>5 DEF Starts

LEMMA StartsKeepSet ==
  ASSUME AcceptanceTypes, SetInv, Starts
  PROVE  SetInv'
<1>0. /\ Made \subseteq Watched /\ Plain \subseteq Watched /\ Kept \subseteq Watched /\
           Structural \subseteq Fields
      /\ Watched \subseteq Fields /\ Watched = Made \cup Plain \cup Kept
      /\ \A f \in Watched : Tool[f] \in Tools /\ At[f] \in Nat /\ At[f] >= 2 /\ At[f] <= 38
  BY PlaceIs DEF Watched, Made, Plain, Kept, Structural, Fields
<1>1. CASE StartMutations
  <2>1. \A f \in Fields : Old(f)'
    BY <1>1 DEF StartMutations, SetInv, ReadsInv, Old
  <2>2. turn' = 1 /\ phase' \in {"probes", "report"}
    BY <1>1 DEF StartMutations
  <2>3. \A f \in Watched : ~(turn' > At[f]) /\ turn' # At[f]
    BY <1>0, <2>2
  <2>4. ProbesInv'
    <3>1. {"volume", "param"} \subseteq Watched
      BY DEF Watched, Kept
    <3>2. ~(turn' > 38)
      BY <2>2
    <3> QED
      BY <1>0, <2>1, <2>3, <3>1, <3>2 DEF ProbesInv
  <2> QED
    BY <1>0, <2>1, <2>2, <2>4 DEF SetInv, ReadsInv, CleanupInv, AdditionsInv, EndInv, Ending
<1>2. CASE StartCleanup
  <2>1. phase = "probes" /\ turn > 39 /\ turn' = 1 /\ phase' = "cleanup" /\ turn \in Nat
        /\ UNCHANGED <<set, row, owed, broken, step>>
    BY <1>2, ProbesAre DEF StartCleanup, AcceptanceTypes
  <2>2. \A f \in Watched : turn > At[f]
    BY <1>0, <2>1
  <2>3. /\ \A f \in Made : Old(f) \/ Bad(Tool[f])
        /\ \A f \in Plain : Rec(Tool[f])
        /\ \A f \in Kept : Old(f) \/ (f \in owed /\ Rec(Tool[f]))
        /\ \A f \in Structural : Old(f)
    BY <1>0, <2>1, <2>2 DEF SetInv, ProbesInv
  <2>4. step' = 1
    BY <2>1 DEF SetInv, ProbesInv
  <2>5. CleanupInv'
    BY <2>1, <2>3, <2>4 DEF CleanupInv, Old, Bad, Rec
  <2> QED
    BY <2>1, <2>5 DEF SetInv, ReadsInv, ProbesInv, AdditionsInv, EndInv, Ending
<1>3. CASE EndCleanup
  <2>1. phase = "cleanup" /\ turn > 12 /\ turn \in Nat /\ set' = set /\ turn' = 1
    BY <1>3, RestoresAre DEF EndCleanup, AcceptanceTypes
  <2>2. \A i \in 1..12 \ {7} : Old(Order[i]) \/ Tool[Order[i]] \in broken
    BY <2>1 DEF SetInv, CleanupInv
  <2>3. ASSUME NEW f \in Plain \cup Kept PROVE Old(f) \/ (Tool[f] \in broken /\ Rec(Tool[f]))
    <3>1. PICK i \in 1..12 : Order[i] = f
      BY OrderIs
    <3>2. i # 7
      BY <3>1, OrderIs DEF Plain, Kept
    <3> QED
      BY <2>1, <2>2, <3>1, <3>2 DEF SetInv, CleanupInv
  <2>4. \A f \in Made : Old(f) \/ Bad(Tool[f])
    BY <2>1 DEF SetInv, CleanupInv
  <2>5. CASE broken = {} /\ ~aborted
    <3>1. phase' = "additions" /\ row' = row
      BY <1>3, <2>5 DEF EndCleanup
    <3>2. AdditionsInv'
      BY <2>1, <2>3, <2>4, <2>5, <3>1 DEF AdditionsInv, Old, Bad
    <3> QED
      BY <3>1, <3>2 DEF SetInv, ReadsInv, ProbesInv, CleanupInv, EndInv, Ending
  <2>6. CASE ~(broken = {} /\ ~aborted)
    <3>1. phase' = "report" /\
            row' = [t \in Tools |-> IF t \in Structurals THEN "failed" ELSE Downgraded[t]]
      BY <1>3, <2>6 DEF EndCleanup
    <3>2. \A f \in Watched : Bad(Tool[f]) => Bad(Tool[f])'
      BY <1>0, <3>1 DEF Bad, Downgraded
    <3>3. \A f \in Watched : Tool[f] \in broken /\ Rec(Tool[f]) => Bad(Tool[f])'
      BY <1>0, <3>1 DEF Rec, Bad, Downgraded
    <3>4. EndInv'
      BY <1>0, <2>1, <2>3, <2>4, <3>2, <3>3 DEF EndInv, Old
    <3> QED
      BY <3>1, <3>4 DEF SetInv, ReadsInv, ProbesInv, CleanupInv, AdditionsInv
  <2> QED
    BY <2>5, <2>6
<1>4. CASE EndAdditions
  <2>1. EndInv'
    BY <1>0, <1>4 DEF EndAdditions, SetInv, AdditionsInv, EndInv, Old, Bad
  <2> QED
    BY <1>4, <2>1 DEF EndAdditions, SetInv, ReadsInv, ProbesInv, CleanupInv, AdditionsInv
<1>5. CASE Finish
  <2>1. phase = "report" /\ phase' \in {"done", "unreported"} /\ set' = set
        /\ \A t \in Tools : row[t] # "none" => row'[t] = row[t]
    BY <1>5 DEF Finish
  <2>2. EndInv'
    BY <1>0, <2>1 DEF SetInv, EndInv, Ending, Old, Bad
  <2> QED
    BY <2>1, <2>2 DEF SetInv, ReadsInv, ProbesInv, CleanupInv, AdditionsInv
<1> QED
  BY <1>1, <1>2, <1>3, <1>4, <1>5 DEF Starts

\* The selection stays, so what is recorded stays recorded.
LEMMA RecordedGrows ==
  ASSUME Grows, profiles' = profiles, expanded' = expanded, NEW CONSTANT probes, NEW CONSTANT n, Recorded(probes, n)
  PROVE  Recorded(probes, n)'
<1>1. \A g : Selected(g)' <=> Selected(g)
  BY DEF Selected, QuitNamed
<1> QED
  BY <1>1 DEF Recorded, Grows

\* The next turn of a phase finds the rows of the turns before it recorded.
LEMMA RecordsNext ==
  ASSUME AcceptanceTypes, AcceptanceSteps, phase \in {"reads", "probes", "additions"}, phase' = phase,
         NEW CONSTANT probes, Current = probes[turn], Recorded(probes, turn)
  PROVE  \A i \in DOMAIN probes :
           i \in Nat /\ i < turn' /\ Selected(probes[i].group) /\ probes[i].tool \in Tools =>
             row'[probes[i].tool] # "none"
<1> SUFFICES ASSUME NEW i \in DOMAIN probes, i \in Nat, i < turn', Selected(probes[i].group),
      probes[i].tool \in Tools
             PROVE  row'[probes[i].tool] # "none"
  OBVIOUS
<1>0. turn \in Nat
  BY DEF AcceptanceTypes
<1>1. CASE i < turn
  BY <1>1, StepsGrow DEF Recorded, Grows
<1>2. CASE ~(i < turn)
  <2>1. turn' = turn + 1 /\ i = turn
    <3>1. turn' = turn + 1 \/ turn' = turn \/ (turn' = 1 /\ phase' # phase)
      BY PhaseGoes
    <3> QED
      BY <3>1, <1>0, <1>2
  <2>2. Current = probes[i]
    BY <2>1
  <2>3. ~Skips
    BY <2>2 DEF Skips
  <2>4. ASSUME NEW s, s # "none", Goes(Current, s) PROVE row'[probes[i].tool] # "none"
    BY <2>2, <2>4, GoesRow DEF AcceptanceTypes
  <2>5. turn' # turn
    BY <2>1, <1>0
  <2>6. ~GoesOn
    BY <2>5 DEF GoesOn
  <2>7. ASSUME NEW how \in {"passed", "failed", "host", "raised"}, Ends(Current, how)
        PROVE  row'[probes[i].tool] # "none"
    <3>1. ~Stops(Current, how)
      BY StopsGrows
    <3>2. Goes(Current, Status(Current, how)) /\ Status(Current, how) # "none"
      BY <3>1, <2>7, EndsIs
    <3> QED
      BY <3>2, <2>4
  <2>8. ASSUME Lacks PROVE row'[probes[i].tool] # "none"
    <3>1. \E s : s # "none" /\ Goes(Current, s)
      BY <2>8 DEF Lacks
    <3> QED
      BY <3>1, <2>4
  <2>9. ASSUME Fails PROVE row'[probes[i].tool] # "none"
    BY <2>9, <2>7 DEF Fails
  <2>10. ASSUME Passes PROVE row'[probes[i].tool] # "none"
    BY <2>10, <2>7 DEF Passes
  <2> QED
    BY <2>3, <2>6, <2>8, <2>9, <2>10, PhaseGoes
<1> QED
  BY <1>1, <1>2

LEMMA RecordsKept ==
  ASSUME AcceptanceTypes, AcceptanceSteps, phase \in {"reads", "probes", "additions"}, phase' = phase,
         NEW CONSTANT probes, Current = probes[turn], Recorded(probes, turn), DOMAIN probes \subseteq Nat
  PROVE  Recorded(probes, turn)'
<1>1. \A g : Selected(g)' <=> Selected(g)
  BY PhaseGoes DEF Selected, QuitNamed
<1>2. \A i \in DOMAIN probes :
           i < turn' /\ Selected(probes[i].group) /\ probes[i].tool \in Tools =>
             row'[probes[i].tool] # "none"
  BY RecordsNext
<1> QED
  BY <1>1, <1>2 DEF Recorded

LEMMA StepsKeepRows ==
  ASSUME AcceptanceTypes, RowsInv, AcceptanceSteps
  PROVE  RowsInv'
<1>0. Grows /\ profiles' = profiles /\ expanded' = expanded /\ AcceptanceTypes' /\ phase \in {"reads", "probes", "cleanup",
        "additions"}
  BY StepsGrow, TypesKeep, PhaseGoes, CurrentIs
<1>1. \/ phase' = phase
      \/ phase' \in {"cleanup", "refused", "report"} /\ aborted' = TRUE
         /\ \A t \in Rows("mutations") : row'[t] # "none"
  <2>1. CASE Fails
    <3>1. PICK how \in {"failed", "host", "raised"} : Ends(Current, how)
      BY <2>1 DEF Fails
    <3>2. CASE Stops(Current, how)
      BY <3>2, StopsGrows, ToolsAre
    <3>3. CASE ~Stops(Current, how)
      BY <3>1, <3>3, EndsIs DEF Goes
    <3> QED
      BY <3>2, <3>3
  <2>2. CASE ~Fails
    BY <2>2, PhaseGoes
  <2> QED
    BY <2>1, <2>2
<1>2. phase' = phase => aborted' = aborted
  <2>1. GoesOn => aborted' = aborted
    BY Zenon DEF GoesOn
  <2>2. phase' = "cleanup" /\ phase = "cleanup" => Current.onFail = "next"
    BY PhaseGoes, CurrentIs DEF RestoreOk
  <2> QED
    BY <1>0, <2>1, <2>2, PhaseGoes, Zenon
<1>3. phase' = "reads" => Recorded(Reads, turn)'
  <2> SUFFICES ASSUME phase' = "reads" PROVE Recorded(Reads, turn)'
    OBVIOUS
  <2>1. phase = "reads" /\ Current = Reads[turn] /\ Recorded(Reads, turn)
    BY <1>1, PhaseGoes, CurrentIs DEF RowsInv
  <2>2. DOMAIN Reads \subseteq Nat
    BY ReadsAre
  <2> QED
    BY <2>1, <2>2, RecordsKept
<1>4. phase' = "probes" => Recorded(Probes, turn)'
  <2> SUFFICES ASSUME phase' = "probes" PROVE Recorded(Probes, turn)'
    OBVIOUS
  <2>1. phase = "probes" /\ Current = Probes[turn] /\ Recorded(Probes, turn)
    BY <1>1, PhaseGoes, CurrentIs DEF RowsInv
  <2>2. DOMAIN Probes \subseteq Nat
    BY ProbesAre
  <2> QED
    BY <2>1, <2>2, RecordsKept
<1>5. phase' = "additions" => Recorded(Additions, turn)'
  <2> SUFFICES ASSUME phase' = "additions" PROVE Recorded(Additions, turn)'
    OBVIOUS
  <2>1. phase = "additions" /\ Current = Additions[turn] /\ Recorded(Additions, turn)
    BY <1>1, PhaseGoes, CurrentIs DEF RowsInv
  <2>2. DOMAIN Additions \subseteq Nat
    BY AdditionsOk
  <2> QED
    BY <2>1, <2>2, RecordsKept
<1>6. phase' # "reads" /\ ~aborted' => Recorded(Reads, Len(Reads) + 1)'
  <2>1. phase' # "reads" /\ ~aborted' => Recorded(Reads, Len(Reads) + 1)
    BY <1>1, <1>2, Zenon DEF RowsInv
  <2> QED
    BY <2>1, <1>0, RecordedGrows
<1>7. phase' \notin {"reads", "probes"} /\ "mutations" \in expanded' /\ ~aborted' => Recorded(Probes, 40)'
  <2>1. phase' \notin {"reads", "probes"} /\ "mutations" \in expanded' /\ ~aborted' =>
          Recorded(Probes, 40)
    BY <1>0, <1>1, <1>2, Zenon DEF RowsInv
  <2> QED
    BY <2>1, <1>0, RecordedGrows
<1>8. phase' \in {"cleanup", "additions"} => \A t \in ToolsOf(Probes, "mutations") : row'[t] # "none"
  BY <1>0, <1>1, ToolsAre DEF RowsInv, Grows
<1>9. phase' \in Ending => \A t \in Rows("mutations") : row'[t] # "none"
  BY <1>0, <1>1 DEF Ending
<1>10. phase' # "unreported"
  BY <1>0, <1>1
<1> QED
  BY <1>3, <1>4, <1>5, <1>6, <1>7, <1>8, <1>9, <1>10 DEF RowsInv

\* Between two phases no row is taken back either.
LEMMA StartsGrow ==
  ASSUME AcceptanceTypes, Starts
  PROVE  Grows /\ profiles' = profiles /\ expanded' = expanded /\ aborted' = aborted
<1>1. profiles' = profiles /\ expanded' = expanded /\ aborted' = aborted
  BY Zenon DEF Starts, StartMutations, StartCleanup, EndCleanup, EndAdditions, Finish, expanded
<1>2. Grows
  BY DEF Starts, StartMutations, StartCleanup, EndCleanup, EndAdditions, Finish, Grows, AcceptanceTypes,
     Downgraded
<1> QED
  BY <1>1, <1>2

\* What a missing row says of a run that was neither cut short nor told to record no quit.
LEMMA NoneMissing ==
  ASSUME AcceptanceTypes, RowsInv, phase = "report", ~aborted, ~(QuitNamed /\ "mutations" \in expanded),
         NEW g \in expanded, NEW t \in Rows(g)
  PROVE  row[t] # "none"
<1>0. g \in Groups /\ t \in Tools /\ Groups \cap {"live", "unread", "quitNamed", "quitUnnamed"} = {}
  BY ToolsAre DEF AcceptanceTypes, Groups
<1>1. Recorded(Reads, Len(Reads) + 1) /\ ("mutations" \in expanded => Recorded(Probes, 40))
  BY DEF RowsInv
<1>2. CASE g = "mutations"
  BY <1>2 DEF RowsInv, Ending
<1>3. CASE g = "quit"
  <2>1. t = "quit_ableton"
    BY <1>3 DEF Rows
  <2>2. CASE QuitNamed
    <3>1. PICK i \in DOMAIN Reads : Reads[i].tool = "quit_ableton" /\ Reads[i].group = "quitNamed"
      BY ReadsAre
    <3>2. Selected("quitNamed")
      BY <2>2, <1>0 DEF Selected
    <3>3. i < Len(Reads) + 1
      BY ReadsAre
    <3> QED
      BY <1>0, <1>1, <2>1, <3>1, <3>2, <3>3 DEF Recorded
  <2>3. CASE ~QuitNamed
    <3>1. "mutations" \in expanded
      BY <2>3, <1>3, ToolsAre DEF QuitNamed, expanded
    <3>2. Selected("quitUnnamed")
      BY <2>3, <1>0 DEF Selected
    <3>3. 39 \in DOMAIN Probes /\ Probes[39].tool = "quit_ableton" /\ Probes[39].group = "quitUnnamed"
      <4>1. 39 \in 1..39
        OBVIOUS
      <4>2. ProbeOk(39)
        BY <4>1, ProbesOk
      <4> QED
        BY <4>1, <4>2, ProbesAre DEF ProbeOk
    <3> QED
      BY <1>0, <1>1, <2>1, <3>1, <3>2, <3>3 DEF Recorded
  <2> QED
    BY <2>2, <2>3
<1>4. CASE g \notin {"mutations", "quit"}
  <2>1. t \in ToolsOf(Reads, g)
    BY <1>4 DEF Rows
  <2>2. PICK i \in DOMAIN Reads : Reads[i].group = g /\ Reads[i].tool = t
    BY <2>1 DEF ToolsOf
  <2>3. Selected(g)
    BY <1>0 DEF Selected
  <2>4. i < Len(Reads) + 1
    BY ReadsAre
  <2> QED
    BY <1>0, <1>1, <2>2, <2>3, <2>4 DEF Recorded
<1> QED
  BY <1>2, <1>3, <1>4

LEMMA StartsKeepRows ==
  ASSUME AcceptanceTypes, RowsInv, Starts
  PROVE  RowsInv'
<1>0. Grows /\ profiles' = profiles /\ expanded' = expanded /\ aborted' = aborted
  BY StartsGrow
<1>1. \A g : Selected(g)' <=> Selected(g)
  BY <1>0 DEF Selected, QuitNamed
<1>2. CASE StartMutations
  <2>1. /\ phase = "reads" /\ turn > Len(Reads) /\ turn' = 1 /\ turn \in Nat
        /\ phase' = IF "mutations" \in expanded THEN "probes" ELSE "report"
    BY <1>2 DEF StartMutations, AcceptanceTypes
  <2>2. Recorded(Reads, turn)
    BY <2>1 DEF RowsInv
  <2>3. Recorded(Reads, Len(Reads) + 1)
    <3>1. \A i \in DOMAIN Reads : i < turn
      BY <2>1, ReadsAre
    <3> QED
      BY <2>2, <3>1 DEF Recorded
  <2>4. Recorded(Reads, Len(Reads) + 1)'
    BY <2>3, <1>0, RecordedGrows
  <2>5. Recorded(Probes, turn)'
    <3>1. \A i \in DOMAIN Probes : ~(i < 1)
      BY ProbesAre
    <3> QED
      BY <2>1, <3>1 DEF Recorded
  <2> QED
    BY <2>1, <2>4, <2>5, <1>0 DEF RowsInv, Ending
<1>3. CASE StartCleanup
  <2>1. phase = "probes" /\ turn > 39 /\ phase' = "cleanup" /\ turn \in Nat /\ "mutations" \in expanded
    BY <1>3, ProbesAre DEF StartCleanup, AcceptanceTypes
  <2>2. Recorded(Probes, turn)
    BY <2>1 DEF RowsInv
  <2>3. Recorded(Probes, 40)
    <3>1. \A i \in DOMAIN Probes : i < turn
      BY <2>1, ProbesAre
    <3> QED
      BY <2>2, <3>1 DEF Recorded
  <2>4. Recorded(Probes, 40)'
    BY <2>3, <1>0, RecordedGrows
  <2>5. ASSUME NEW t \in ToolsOf(Probes, "mutations") PROVE row'[t] # "none"
    <3>1. PICK i \in DOMAIN Probes : Probes[i].group = "mutations" /\ Probes[i].tool = t
      BY DEF ToolsOf
    <3>2. Selected("mutations") /\ t \in Tools
      BY <2>1, ToolsAre DEF Selected
    <3>3. i < 40
      BY ProbesAre
    <3> QED
      BY <2>3, <3>1, <3>2, <3>3, <1>0 DEF Recorded, Grows
  <2>6. ~aborted => Recorded(Reads, Len(Reads) + 1)
    BY <2>1 DEF RowsInv
  <2>7. ~aborted' => Recorded(Reads, Len(Reads) + 1)'
    BY <2>6, <1>0, RecordedGrows
  <2> QED
    BY <2>1, <2>4, <2>5, <2>7 DEF RowsInv, Ending
<1>4. CASE EndCleanup
  <2>1. phase = "cleanup" /\ turn' = 1 /\ phase' \in {"additions", "report"}
    BY <1>4 DEF EndCleanup
  <2>2. ~aborted => Recorded(Reads, Len(Reads) + 1)
    BY <2>1 DEF RowsInv
  <2>3. ~aborted' => Recorded(Reads, Len(Reads) + 1)'
    BY <2>2, <1>0, RecordedGrows
  <2>4. "mutations" \in expanded /\ ~aborted => Recorded(Probes, 40)
    BY <2>1 DEF RowsInv
  <2>5. "mutations" \in expanded' /\ ~aborted' => Recorded(Probes, 40)'
    BY <2>4, <1>0, RecordedGrows
  <2>6. Recorded(Additions, turn)'
    <3>1. \A i \in DOMAIN Additions : ~(i < 1)
      BY AdditionsOk
    <3> QED
      BY <2>1, <3>1 DEF Recorded
  <2>7. \A t \in ToolsOf(Probes, "mutations") : row'[t] # "none"
    BY <2>1, <1>0, ToolsAre DEF RowsInv, Grows
  <2>8. phase' = "report" => \A t \in Structurals : row'[t] = "failed"
    BY <1>4, ToolsAre DEF EndCleanup
  <2>9. phase' \in Ending => \A t \in Rows("mutations") : row'[t] # "none"
    BY <2>1, <2>7, <2>8 DEF Rows, Ending
  <2> QED
    BY <2>1, <2>3, <2>5, <2>6, <2>7, <2>9 DEF RowsInv
<1>5. CASE EndAdditions
  <2>1. phase = "additions" /\ turn > 3 /\ phase' = "report" /\ turn \in Nat /\ "mutations" \in expanded
    BY <1>5, AdditionsOk DEF EndAdditions, AcceptanceTypes
  <2>2. ~aborted => Recorded(Reads, Len(Reads) + 1) /\ Recorded(Probes, 40)
    BY <2>1 DEF RowsInv
  <2>3. ~aborted' => Recorded(Reads, Len(Reads) + 1)' /\ Recorded(Probes, 40)'
    BY <2>2, <1>0, RecordedGrows
  <2>4. \A t \in ToolsOf(Probes, "mutations") : row'[t] # "none"
    BY <2>1, <1>0, ToolsAre DEF RowsInv, Grows
  <2>5. ASSUME NEW t \in Structurals PROVE row'[t] # "none"
    <3>1. PICK i \in DOMAIN Additions : Additions[i].group = "mutations" /\ Additions[i].tool = t
      BY DEF Structurals, ToolsOf
    <3>2. Selected("mutations") /\ t \in Tools
      BY <2>1, ToolsAre DEF Selected
    <3>3. i < turn
      BY <2>1, AdditionsOk
    <3>4. Recorded(Additions, turn)
      BY <2>1 DEF RowsInv
    <3> QED
      BY <3>1, <3>2, <3>3, <3>4, <1>0 DEF Recorded, Grows
  <2>6. \A t \in Rows("mutations") : row'[t] # "none"
    BY <2>4, <2>5 DEF Rows
  <2> QED
    BY <2>1, <2>3, <2>6 DEF RowsInv, Ending
<1>6. CASE Finish
  <2>1. /\ phase = "report" /\ phase' \in {"done", "unreported"}
        /\ phase' = "unreported" => \E t \in Tools : row'[t] = "none"
    BY <1>6 DEF Finish
  <2>2. \A t \in Tools : row'[t] = "none" => row[t] = "none" /\ \E g \in expanded : t \in Rows(g)
    BY <1>6 DEF Finish
  <2>3. ~aborted => Recorded(Reads, Len(Reads) + 1)
    BY <2>1 DEF RowsInv
  <2>4. ~aborted' => Recorded(Reads, Len(Reads) + 1)'
    BY <2>3, <1>0, RecordedGrows
  <2>5. "mutations" \in expanded /\ ~aborted => Recorded(Probes, 40)
    BY <2>1 DEF RowsInv
  <2>6. "mutations" \in expanded' /\ ~aborted' => Recorded(Probes, 40)'
    BY <2>5, <1>0, RecordedGrows
  <2>7. "mutations" \in expanded => \A t \in Rows("mutations") : row'[t] # "none"
    BY <2>1, <1>0, ToolsAre DEF RowsInv, Ending, Grows
  <2>8. phase' = "unreported" => aborted \/ (QuitNamed /\ "mutations" \in expanded)
    BY <2>1, <2>2, NoneMissing
  <2>9. phase' = "unreported" => aborted' \/ (QuitNamed' /\ "mutations" \in expanded')
    BY <2>8, <1>0, Zenon DEF QuitNamed
  <2> QED
    BY <2>1, <2>4, <2>6, <2>7, <2>9, <1>0 DEF RowsInv, Ending
<1> QED
  BY <1>2, <1>3, <1>4, <1>5, <1>6 DEF Starts

LEMMA AcceptanceStays ==
  ASSUME AcceptanceInv, [AcceptanceNext]_acceptanceVars
  PROVE  AcceptanceInv'
<1> USE DEF AcceptanceInv
<1>1. CASE AcceptanceSteps
  <2>1. AcceptanceTypes' /\ RowsInv'
    BY <1>1, TypesKeep, StepsKeepRows
  <2>2. phase \in {"reads", "probes", "cleanup", "additions"}
    BY <1>1, PhaseGoes, CurrentIs
  <2>3. SetInv'
    BY <1>1, <2>2, ReadsKeepSet, ProbesKeepSet, CleanupKeepsSet, AdditionsKeepSet
  <2> QED
    BY <2>1, <2>3
<1>2. CASE Starts
  BY <1>2, StartsKeepTypes, StartsKeepSet, StartsKeepRows
<1>3. CASE UNCHANGED acceptanceVars
  <2>1. AcceptanceTypes'
    BY <1>3, Zenon DEF AcceptanceTypes, expanded, acceptanceVars
  <2>2. SetInv'
    BY <1>3, Zenon DEF SetInv, ReadsInv, ProbesInv, CleanupInv, AdditionsInv, EndInv, acceptanceVars,
       Old, Bad, Rec
  <2>3. RowsInv'
    BY <1>3, Zenon DEF RowsInv, Recorded, Selected, QuitNamed, expanded, acceptanceVars
  <2> QED
    BY <2>1, <2>2, <2>3
<1> QED
  BY <1>1, <1>2, <1>3 DEF AcceptanceNext, Advance, AcceptanceSteps, Starts

\* Whatever is selected, lacking or fails: what differs from the baseline is what the
\* probe at hand changes, what the cleanup is going to restore, or what a failed row
\* tells of; and the rows of the probes that the run has passed are recorded.
THEOREM AcceptanceSafety == AcceptanceSpec => []AcceptanceInv
<1>1. AcceptanceInv /\ [AcceptanceNext]_acceptanceVars => AcceptanceInv'
  BY AcceptanceStays
<1> QED
  BY InitAcceptance, <1>1, PTL DEF AcceptanceSpec

\* However the run ends, every selected mutation has a row; a report is withheld only
\* after an exception, or when quit and mutations were named together.
THEOREM AllAreClassified == AcceptanceSpec => []AllClassified
<1>1. AcceptanceInv => AllClassified
  BY DEF AcceptanceInv, RowsInv, AllClassified, Ended, Ending
<1> QED
  BY <1>1, AcceptanceSafety, PTL

\* The tool that answers for a field has been tried on it.
LEMMA TriesPlain ==
  ASSUME NEW f \in Plain
  PROVE  \E k \in DOMAIN Probes[At[f]].calls : Probes[At[f]].calls[k].field = f
<1>1. ASSUME NEW p, NEW t, NEW g, p = Tried(t, g) PROVE 1 \in DOMAIN p.calls /\ p.calls[1].field = g
  BY <1>1 DEF Tried, Probe, Write, Call
<1>2. Probes[12] = Tried("set_loop", "loop") /\ Probes[10] = Tried("set_loop_start", "loopStart")
  BY ProbesAre DEF Transport
<1>3. Probes[11] = Tried("set_loop_length", "loopLength") /\ Probes[8] = Tried("set_tempo", "tempo")
  BY ProbesAre DEF Transport
<1>4. Probes[9] = Tried("set_current_song_time", "time")
  BY ProbesAre DEF Transport
<1>5. Probes[22] = Tried("set_track_property", "mute") /\ Probes[24] = Tried("set_track_color", "color")
  BY ProbesAre DEF Tracks
<1>6. 1 \in DOMAIN Probes[16].calls /\ Probes[16].calls[1].field = "playing"
  <2>1. Probes[16] = Probe("stop_playback", "none", <<Write("playing", "old"), Expect("playing", "old")>>)
    BY ProbesAre DEF Playback
  <2> QED
    BY <2>1 DEF Probe, Write, Call
<1>7. CASE f = "playing"
  BY <1>6, <1>7, Fields16
<1>8. CASE f \in {"mute", "color"}
  BY <1>1, <1>5, <1>8, Fields16
<1>9. CASE f \in {"loop", "loopStart"}
  BY <1>1, <1>2, <1>9, Fields16
<1>10. CASE f \in {"loopLength", "tempo"}
  BY <1>1, <1>3, <1>10, Fields16
<1>11. CASE f = "time"
  BY <1>1, <1>4, <1>11, Fields16
<1> QED
  BY <1>7, <1>8, <1>9, <1>10, <1>11 DEF Plain

LEMMA TriesKept ==
  ASSUME NEW f \in Kept
  PROVE  \E k \in DOMAIN Probes[At[f]].calls : Probes[At[f]].calls[k].field = f
<1>1. Probes[33] = SetParameter /\ Probes[37] = LiveFade /\ Probes[38] = SetWarp
  BY ProbesAre
<1>2. /\ 1 \in DOMAIN SetParameter.calls /\ SetParameter.calls[1].field = "param"
      /\ 1 \in DOMAIN LiveFade.calls /\ LiveFade.calls[1].field = "volume"
      /\ 1 \in DOMAIN SetWarp.calls /\ SetWarp.calls[1].field = "warp"
  BY DEF SetParameter, LiveFade, SetWarp, Probe, Read, Write, Call
<1> QED
  BY <1>1, <1>2, Fields16 DEF Kept

LEMMA TriesMade ==
  ASSUME NEW f \in Made
  PROVE  \E k \in DOMAIN Probes[At[f]].calls : Probes[At[f]].calls[k].field = f
<1>0. f \in Watched
  BY DEF Watched
<1>1. At[f] \in 1..39 /\ Gone[f] \in 2..Len(Probes[At[f]].calls) + 1 /\
        Probes[At[f]].calls[Gone[f] - 1] = Delete(f)
  BY <1>0, PlaceIs DEF PlaceOk
<1>2. Len(Probes[At[f]].calls) \in Nat /\ DOMAIN Probes[At[f]].calls = 1..Len(Probes[At[f]].calls)
  BY <1>1, ProbesOk DEF ProbeOk
<1>3. Gone[f] - 1 \in DOMAIN Probes[At[f]].calls
  BY <1>1, <1>2
<1> QED
  BY <1>1, <1>3 DEF Delete, Call

LEMMA AnswersFor ==
  ASSUME NEW f \in Watched
  PROVE  Tool[f] \in TriedOn(f) \ {"none"}
<1>1. /\ At[f] \in DOMAIN Probes /\ Tool[f] = Probes[At[f]].tool /\ Tool[f] # "none"
  <2>1. PlaceOk(f) /\ Tool[f] # "none"
    BY PlaceIs
  <2>2. At[f] \in 1..39
    BY <2>1 DEF PlaceOk
  <2> QED
    BY <2>1, <2>2, ProbesAre DEF PlaceOk
<1>2. \E k \in DOMAIN Probes[At[f]].calls : Probes[At[f]].calls[k].field = f
  BY TriesPlain, TriesKept, TriesMade DEF Watched
<1> QED
  BY <1>1, <1>2 DEF TriedOn

\* Whatever differs from the baseline in the end has a failed row among the tools that
\* were tried on it, and no release is certified: the inverses of runner.py, run on one
\* Set, restore every field or say which one they did not.
THEOREM LeftoversHaveFailed == AcceptanceSpec => []LeftoversAreFailed
<1>1. AcceptanceInv => LeftoversAreFailed
  <2> SUFFICES ASSUME AcceptanceInv, Ended, NEW f \in Fields \ (Structural \cup {"name"}), set[f] # "old"
               PROVE  ~Ready /\ \E t \in TriedOn(f) \ {"none"} : row[t] \in {"failed", "host"}
    BY DEF LeftoversAreFailed
  <2>1. f \in Watched
    BY DEF Watched, Made, Plain, Kept, Fields, Structural
  <2>2. Bad(Tool[f])
    BY <2>1 DEF AcceptanceInv, SetInv, EndInv, Ended, Ending, Old
  <2>3. ~Ready
    BY <2>1, <2>2, PlaceIs DEF Ready, Bad
  <2> QED
    BY <2>1, <2>2, <2>3, AnswersFor DEF Bad
<1> QED
  BY <1>1, AcceptanceSafety, PTL

\* When a track is added, whatever the cleanup writes back is as it was, a cue apart.
THEOREM TracksAreLast == AcceptanceSpec => TracksLast
<1>1. ASSUME AcceptanceInv, [AcceptanceNext]_acceptanceVars
      PROVE  [set'.audioTrack # set.audioTrack =>
               \A i \in DOMAIN Restores :
                 Restores[i].needs # "cue" => set[Restores[i].calls[1].field] = "old"]_acceptanceVars
  <2> SUFFICES ASSUME set'.audioTrack # set.audioTrack, NEW i \in DOMAIN Restores,
        Restores[i].needs # "cue"
               PROVE  set[Restores[i].calls[1].field] = "old"
    OBVIOUS
  <2>0. "audioTrack" \in Fields \ {"time"} /\ "audioTrack" \in Structural
    BY DEF Fields, Structural
  <2>1. AcceptanceSteps
    <3>1. ~Starts
      BY Zenon DEF Starts, StartMutations, StartCleanup, EndCleanup, EndAdditions, Finish
    <3>2. ~UNCHANGED acceptanceVars
      BY DEF acceptanceVars
    <3> QED
      BY <1>1, <3>1, <3>2 DEF AcceptanceNext, Advance, AcceptanceSteps, Starts
  <2>2. AcceptanceTypes /\ SetInv
    BY <1>1 DEF AcceptanceInv
  <2>3. step \in DOMAIN Current.calls /\ "audioTrack" \in Changes(Op)
    BY <2>0, <2>1, <2>2, FieldAfter
  <2>4. phase # "reads"
    <3> SUFFICES ASSUME phase = "reads" PROVE FALSE
      OBVIOUS
    <3>1. ReadOk(Current)
      BY <2>1, <2>2, PhaseGoes, CurrentIs
    <3> QED
      BY <2>3, <3>1 DEF ReadOk, Op, Changes
  <2>5. phase # "probes"
    <3> SUFFICES ASSUME phase = "probes" PROVE FALSE
      OBVIOUS
    <3> QED
      BY <2>0, <2>1, <2>2, <2>3, ProbeStep DEF ProbeOk, CallOk, Op
  <2>6. phase # "cleanup"
    <3> SUFFICES ASSUME phase = "cleanup" PROVE FALSE
      OBVIOUS
    <3>1. Order[turn] = "audioTrack"
      BY <2>0, <2>1, <2>2, CleanupStep
    <3>2. turn \in 1..12
      BY <2>1, <2>2, CleanupStep
    <3> QED
      BY <3>1, <3>2, OrderIs DEF Plain, Kept
  <2>7. phase = "additions"
    BY <2>1, <2>2, <2>4, <2>5, <2>6, PhaseGoes, CurrentIs
  <2>8. RestoreOk(i) /\ i \in 1..12
    BY RestoresAre, RestoresOk
  <2>9. Order[i] \in Plain \cup Kept
    <3>1. Order[i] # "cue"
      BY <2>8 DEF RestoreOk, Plain
    <3> QED
      BY <2>8, <3>1, OrderIs
  <2>10. Restores[i].calls[1].field = Order[i]
    BY <2>8 DEF RestoreOk, Write, Call
  <2> QED
    BY <2>2, <2>7, <2>9, <2>10 DEF SetInv, AdditionsInv, Old
<1> QED
  BY <1>1, AcceptanceSafety, PTL DEF TracksLast, AcceptanceSpec
==============================================================================
