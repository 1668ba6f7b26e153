---------------------------- MODULE SceneBuildProofs ----------------------------
(***************************************************************************)
(* The invariants of SceneBuild, for any scene entities, owners, prefabs   *)
(* and bounds.  They are not inductive by themselves: that a token is      *)
(* answered once rests on its having one holder, whose life says whether   *)
(* it was answered; that a ready scene is whole rests on the queued        *)
(* command having the partitions its component still asks for, and that it *)
(* is there on what is queued for destruction being nobody's; and all of   *)
(* them on the numbers by which components and scenes know each other      *)
(* being given out once.                                                   *)
(***************************************************************************)
EXTENDS SceneBuild, FiniteSetTheorems, TLAPS

Reg == [token : Token, owner : Owner, target : SceneEntity \union {NoEntity}]
Lives == {"Inactive", "Collecting", "Building", "Ready", "Failed", "Destroying"}
Component == [life : Lives, regs : SUBSET Reg, scene : Nat \union {NoScene}, number : Nat]
SceneState == [life : {"Pending", "Alive", "Destroying"}, partitions : SUBSET Token]
Command == [op : {"create"}, scene : Nat, partitions : SUBSET Token]
           \union [op : {"destroy"}, scene : Nat]

(* A component has a number of its own from its last activation on, names   *)
(* its scene by it, and holds nothing before it builds or after it went.    *)
CompInv(C, act) ==
  /\ C \in [SceneEntity -> Component] /\ act \in Nat
  /\ \A e \in SceneEntity :
       /\ C[e].number <= act
       /\ C[e].life # "Inactive" => C[e].number # 0
       /\ C[e].scene # NoScene => C[e].scene = C[e].number
       /\ C[e].life \in {"Inactive", "Collecting", "Destroying"} => C[e].scene = NoScene /\ C[e].regs = {}
  /\ \A e, f \in SceneEntity : C[e].number = C[f].number => e = f \/ C[e].number = 0

(* A token is held by one component; it is unanswered while that builds,    *)
(* answered once it is ready.                                               *)
AnsInv(C, A, next) ==
  /\ A \in [Token -> Seq({"ready", "failed"})] /\ next \in Nat
  /\ \A t \in Token : Len(A[t]) <= 1
  /\ \A t \in Token : t >= next => A[t] = <<>>
  /\ \A e \in SceneEntity : \A r \in C[e].regs :
       /\ r.token < next
       /\ C[e].life = "Building" => A[r.token] = <<>>
       /\ C[e].life = "Ready" => A[r.token] = <<"ready">>
  /\ \A e, f \in SceneEntity : \A r \in C[e].regs, q \in C[f].regs : r.token = q.token => e = f

CommandOK(c, C, act) ==
  c.op = "create" =>
    /\ c.scene \in 1 .. act
    /\ \A e \in SceneEntity : C[e].number = c.scene =>
         C[e].life = "Destroying" \/ (C[e].scene = c.scene /\ c.partitions = TokensOf(C[e].regs))

(* What was given a scene had loaded and was accepted; the scenes of ready  *)
(* components are whole; scenes have owners; a command creates what its     *)
(* component asked for.                                                     *)
Accepted(C, assets, e) ==
  \A r \in C[e].regs : PrefabOf[r.owner] \notin BadPrefab /\ assets[PrefabOf[r.owner]] = "ready"

SceneInv(C, S, Q, assets, act) ==
  /\ S \in [DOMAIN S -> SceneState] /\ DOMAIN S \subseteq 1 .. act
  /\ \A e \in SceneEntity :
       /\ C[e].scene # NoScene => Accepted(C, assets, e)
       /\ C[e].life = "Ready" =>
            /\ C[e].scene # NoScene
            /\ C[e].scene \in DOMAIN S =>
                 S[C[e].scene] = [life |-> "Alive", partitions |-> TokensOf(C[e].regs)]
  /\ \A h \in DOMAIN S : S[h].life # "Destroying" =>
       \E e \in SceneEntity : C[e].scene = h /\ C[e].life \in {"Building", "Ready"}
  /\ Q \in Seq(Command) /\ \A i \in 1 .. Len(Q) : CommandOK(Q[i], C, act)

(* Tokens that wait in an open collection are held and answered by nobody.  *)
PendingInv ==
  /\ \A r \in sys.pending : r.token < sys.next
  /\ \A r, q \in sys.pending : r.token = q.token => r = q
  /\ ~sys.closed => \A r \in sys.pending :
       /\ answers[r.token] = <<>>
       /\ \A e \in SceneEntity : r.token \notin TokensOf(comp[e].regs)
  /\ ~sys.closed => \A e \in Entities : comp[e].life = "Collecting"

Types ==
  /\ sys \in [active : BOOLEAN, closed : BOOLEAN, entities : SUBSET [entity : SceneEntity, default : BOOLEAN],
              pending : SUBSET Reg, next : Nat]
  /\ asset \in [Prefab -> {"unloaded", "loading", "ready", "error"}]

IndInv ==
  /\ Types /\ CompInv(comp, activations) /\ AnsInv(comp, answers, sys.next)
  /\ SceneInv(comp, m_scenes, m_commands, asset, activations)
  /\ PendingInv /\ NoneLost

--------------------------------------------------------------------------------
(* The invariant holds when the system component has just been activated.     *)
LEMMA InitInv == Init => IndInv
<1> SUFFICES ASSUME Init PROVE IndInv OBVIOUS
<1> USE BuildAssumption
<1>1. Types BY DEF Init, Types, NoSystem
<1>2. CompInv(comp, activations)
  <2>1. Inactive \in Component BY DEF Inactive, Component, Lives
  <2> QED BY <2>1 DEF Init, CompInv, Inactive
<1>3. sys.next = 1 /\ sys.pending = {} /\ sys.entities = {} /\ ~sys.closed
  BY DEF Init, NoSystem
<1>4. AnsInv(comp, answers, sys.next) BY <1>3 DEF Init, AnsInv, Inactive
<1>5. SceneInv(comp, m_scenes, m_commands, asset, activations)
  <2>1. m_scenes \in [DOMAIN m_scenes -> SceneState] /\ DOMAIN m_scenes = {}
    BY DEF Init
  <2> QED BY <2>1 DEF Init, SceneInv, Inactive
<1>6. PendingInv BY <1>3 DEF PendingInv, Entities
<1>7. NoneLost BY <1>3 DEF NoneLost, Collected
<1> QED BY <1>1, <1>2, <1>4, <1>5, <1>6, <1>7 DEF IndInv

(* Answering what some building components hold, as they fail or are ready. *)
HeldAnswered(C, A, new, B, X, T, answer) ==
  /\ C \in [SceneEntity -> Component] /\ new \in [SceneEntity -> Component]
  /\ X \subseteq SceneEntity /\ answer \in {"ready", "failed"}
  /\ \A e \in SceneEntity : new[e].regs = C[e].regs
  /\ \A e \in X : C[e].life = "Building" /\ new[e].life = (IF answer = "ready" THEN "Ready" ELSE "Failed")
  /\ \A e \in SceneEntity : e \notin X => new[e].life = C[e].life
  /\ \A t \in T : \E e \in X : t \in TokensOf(C[e].regs)
  /\ \A e \in X : TokensOf(C[e].regs) \subseteq T
  /\ B \in [Token -> Seq({"ready", "failed"})]
  /\ \A t \in Token : B[t] = IF t \in T THEN Append(A[t], answer) ELSE A[t]

(* Their tokens were unanswered, so they have one answer now.                 *)
LEMMA AnswerHeld ==
  ASSUME NEW C, NEW A, NEW next, AnsInv(C, A, next), NEW new, NEW B, NEW X, NEW T, NEW answer,
         HeldAnswered(C, A, new, B, X, T, answer)
  PROVE  AnsInv(new, B, next)
<1> USE DEF HeldAnswered
<1>1. \A t \in T : \E e \in X : \E r \in C[e].regs : r.token = t
  BY DEF TokensOf
<1>2. \A e \in X : \A r \in C[e].regs : r.token \in T
  BY DEF TokensOf
<1>3. A \in [Token -> Seq({"ready", "failed"})] /\ next \in Nat BY DEF AnsInv
<1>4. \A e \in SceneEntity : \A r \in C[e].regs : r.token \in Token
  BY DEF Component, Reg
<1>5. \A t \in T : t \in Token /\ A[t] = <<>> /\ t < next
  <2> SUFFICES ASSUME NEW t \in T PROVE t \in Token /\ A[t] = <<>> /\ t < next
    OBVIOUS
  <2>1. PICK e \in X : \E r \in C[e].regs : r.token = t BY <1>1
  <2>2. PICK r \in C[e].regs : r.token = t BY <2>1
  <2> QED BY <2>1, <2>2, <1>4 DEF AnsInv
<1>6. \A t \in Token : B[t] = IF t \in T THEN <<answer>> ELSE A[t]
  <2> SUFFICES ASSUME NEW t \in Token PROVE B[t] = IF t \in T THEN <<answer>> ELSE A[t]
    OBVIOUS
  <2>1. CASE t \in T
    <3>1. A[t] = <<>> BY <2>1, <1>5
    <3>2. Append(<<>>, answer) = <<answer>> OBVIOUS
    <3> QED BY <2>1, <3>1, <3>2
  <2> QED BY <2>1
<1>8. \A t \in Token : Len(B[t]) <= 1
  <2> SUFFICES ASSUME NEW t \in Token PROVE Len(B[t]) <= 1
    OBVIOUS
  <2>1. CASE t \in T
    <3>1. Len(<<answer>>) = 1 OBVIOUS
    <3>2. B[t] = <<answer>> BY <1>6, <2>1
    <3>3. Len(B[t]) = 1 BY <3>1, <3>2
    <3> QED BY <3>3
  <2>2. CASE t \notin T
    <3>1. B[t] = A[t] BY <1>6, <2>2
    <3> QED BY <3>1 DEF AnsInv
  <2> QED BY <2>1, <2>2
<1>9. \A t \in Token : t >= next => B[t] = <<>>
  <2> SUFFICES ASSUME NEW t \in Token, t >= next PROVE B[t] = <<>>
    OBVIOUS
  <2>1. t \in Nat BY DEF Token
  <2>2. t \notin T BY <1>3, <1>5, <2>1
  <2> QED BY <1>6, <2>2 DEF AnsInv
<1>10. ASSUME NEW e \in SceneEntity, NEW r \in new[e].regs
       PROVE  /\ r.token < next
              /\ new[e].life = "Building" => B[r.token] = <<>>
              /\ new[e].life = "Ready" => B[r.token] = <<"ready">>
  <2>1. r \in C[e].regs /\ r.token < next /\ r.token \in Token BY <1>4 DEF AnsInv
  <2>2. CASE e \in X
    <3>1. r.token \in T BY <1>2, <2>1, <2>2
    <3> QED BY <1>6, <2>1, <2>2, <3>1
  <2>3. CASE e \notin X
    <3>1. r.token \notin T
      <4> SUFFICES ASSUME r.token \in T PROVE FALSE OBVIOUS
      <4>1. PICK f \in X : \E q \in C[f].regs : q.token = r.token BY <1>1
      <4> QED BY <2>1, <2>3, <4>1 DEF AnsInv
    <3> QED BY <1>6, <2>1, <2>3, <3>1 DEF AnsInv
  <2> QED BY <2>2, <2>3
<1>11. \A e, f \in SceneEntity : \A r \in new[e].regs, q \in new[f].regs : r.token = q.token => e = f
  BY DEF AnsInv
<1> QED BY <1>3, <1>8, <1>9, <1>10, <1>11 DEF AnsInv

(* Answering tokens nobody holds.                                           *)
UnheldAnswered(C, A, next, B, U) ==
  /\ C \in [SceneEntity -> Component]
  /\ \A t \in U : t < next /\ t \in Token /\ A[t] = <<>>
  /\ \A e \in SceneEntity : \A r \in C[e].regs : r.token \notin U
  /\ B \in [Token -> Seq({"ready", "failed"})]
  /\ \A t \in Token : B[t] = A[t] \o (IF t \in U THEN <<"failed">> ELSE <<>>)

(* These were unanswered as well.                                             *)
LEMMA AnswerUnheld ==
  ASSUME NEW C, NEW A, NEW next, AnsInv(C, A, next), NEW U, NEW B, UnheldAnswered(C, A, next, B, U)
  PROVE  AnsInv(C, B, next)
<1> USE DEF UnheldAnswered
<1>1. A \in [Token -> Seq({"ready", "failed"})] /\ next \in Nat BY DEF AnsInv
<1>2. \A t \in Token : B[t] = IF t \in U THEN <<"failed">> ELSE A[t]
  <2> SUFFICES ASSUME NEW t \in Token PROVE B[t] = IF t \in U THEN <<"failed">> ELSE A[t]
    OBVIOUS
  <2>1. CASE t \in U
    <3>1. A[t] = <<>> BY <2>1
    <3>2. <<>> \o <<"failed">> = <<"failed">> OBVIOUS
    <3> QED BY <2>1, <3>1, <3>2
  <2>2. CASE t \notin U
    <3>1. A[t] \in Seq({"ready", "failed"}) BY <1>1
    <3>2. A[t] \o <<>> = A[t] BY <3>1
    <3> QED BY <2>2, <3>2
  <2> QED BY <2>1, <2>2
<1>4. Len(<<"failed">>) = 1 OBVIOUS
<1>5. \A t \in Token : Len(B[t]) <= 1 /\ (t >= next => B[t] = <<>>)
  <2> SUFFICES ASSUME NEW t \in Token PROVE Len(B[t]) <= 1 /\ (t >= next => B[t] = <<>>)
    OBVIOUS
  <2>1. t \in Nat BY DEF Token
  <2>2. CASE t \in U
    <3>1. B[t] = <<"failed">> BY <1>2, <2>2
    <3>2. Len(B[t]) = 1 BY <3>1, <1>4
    <3>3. ~ t >= next BY <1>1, <2>1, <2>2
    <3> QED BY <3>2, <3>3
  <2>3. CASE t \notin U
    <3>1. B[t] = A[t] BY <1>2, <2>3
    <3> QED BY <3>1 DEF AnsInv
  <2> QED BY <2>2, <2>3
<1>6. \A e \in SceneEntity : \A r \in C[e].regs : r.token \in Token
  BY DEF Component, Reg
<1> QED BY <1>1, <1>2, <1>5, <1>6 DEF AnsInv

(* What Answered returns, element by element.                               *)
LEMMA AnsweredTypes ==
  ASSUME answers \in [Token -> Seq({"ready", "failed"})], NEW T, NEW answer \in {"ready", "failed"}
  PROVE  /\ Answered(T, answer) \in [Token -> Seq({"ready", "failed"})]
         /\ \A t \in Token :
              /\ Answered(T, answer)[t] = IF t \in T THEN Append(answers[t], answer) ELSE answers[t]
              /\ Answered(T, answer)[t] = <<>> => t \notin T /\ answers[t] = <<>>
<1> DEFINE B == Answered(T, answer)
<1>1. \A t \in Token : Append(answers[t], answer) \in Seq({"ready", "failed"}) OBVIOUS
<1>2. \A t \in Token : B[t] = IF t \in T THEN Append(answers[t], answer) ELSE answers[t]
  BY DEF Answered
<1>3. ASSUME NEW t \in Token PROVE Append(answers[t], answer) # <<>>
  <2>1. Len(Append(answers[t], answer)) = Len(answers[t]) + 1 /\ Len(answers[t]) \in Nat OBVIOUS
  <2>2. Len(<<>>) = 0 OBVIOUS
  <2>3. Len(Append(answers[t], answer)) # Len(<<>>) BY <2>1, <2>2
  <2> QED BY <2>3, Zenon
<1>4. B \in [Token -> Seq({"ready", "failed"})]
  BY <1>1 DEF Answered
<1> QED BY <1>2, <1>3, <1>4

(* Elements of a concatenation come from either part.                       *)
LEMMA ConcatElements ==
  ASSUME NEW D, NEW p \in Seq(D), NEW q \in Seq(D)
  PROVE  /\ p \o q \in Seq(D)
         /\ \A i \in 1 .. Len(p \o q) : \/ \E j \in 1 .. Len(p) : (p \o q)[i] = p[j]
                                        \/ \E j \in 1 .. Len(q) : (p \o q)[i] = q[j]
<1>1. p \o q \in Seq(D) /\ Len(p \o q) = Len(p) + Len(q) /\ Len(p) \in Nat /\ Len(q) \in Nat
  OBVIOUS
<1>2. ASSUME NEW i \in 1 .. Len(p \o q)
      PROVE  \/ \E j \in 1 .. Len(p) : (p \o q)[i] = p[j]
             \/ \E j \in 1 .. Len(q) : (p \o q)[i] = q[j]
  <2>1. CASE i <= Len(p)
    <3>1. (p \o q)[i] = p[i] /\ i \in 1 .. Len(p) BY <1>1, <2>1
    <3> QED BY <3>1
  <2>2. CASE i > Len(p)
    <3>1. (p \o q)[i] = q[i - Len(p)] /\ i - Len(p) \in 1 .. Len(q) BY <1>1, <2>2
    <3> QED BY <3>1
  <2> QED BY <1>1, <2>1, <2>2
<1> QED BY <1>1, <1>2

--------------------------------------------------------------------------------
(* What a step of the components does to one that builds: the build fails,  *)
(* or its scene is asked for once everything it holds is accepted.          *)
Built(c, d) ==
  /\ c.life = "Building" /\ c.scene = NoScene /\ d.regs = c.regs /\ d.number = c.number
  /\ \/ d.life = "Failed" /\ d.scene = NoScene
     \/ d.life = "Building" /\ d.scene = d.number

BuildStep(C, new, assets) ==
  /\ new \in [SceneEntity -> Component]
  /\ \A e \in SceneEntity :
       \/ new[e] = C[e]
       \/ Built(C[e], new[e]) /\ (new[e].scene # NoScene => Accepted(new, assets, e))

(* A build that fails keeps its registrations and has no scene.               *)
LEMMA FailBuilds ==
  ASSUME NEW c \in Component, c.life = "Building", c.scene = NoScene
  PROVE  FailBuild(c) \in Component /\ Built(c, FailBuild(c)) /\ FailBuild(c).scene = NoScene
         /\ FailBuild(c).life = "Failed"
<1>1. FailBuild(c) = [c EXCEPT !.life = "Failed"] BY DEF FailBuild
<1> QED BY <1>1 DEF Component, Lives, Built

(* TryBuild waits, fails, or asks for a scene whose prefabs are all ready.    *)
LEMMA TryBuilds ==
  ASSUME NEW e \in SceneEntity, NEW c \in Component, c.life = "Building", c.scene = NoScene, NEW assets
  PROVE  LET d == TryBuild(e, c, assets)
         IN  /\ d \in Component /\ d.life \in {"Building", "Failed"} /\ d.regs = c.regs
             /\ \/ d = c
                \/ Built(c, d) /\ (d.scene # NoScene =>
                     \A r \in d.regs : PrefabOf[r.owner] \notin BadPrefab /\ assets[PrefabOf[r.owner]] = "ready")
<1> DEFINE d == TryBuild(e, c, assets)
           s == [c EXCEPT !.scene = c.number]
<1>1. s \in Component /\ Built(c, s) /\ s.regs = c.regs /\ s.life = "Building" BY DEF Component, Lives, Built
<1>2. FailBuild(c) \in Component /\ Built(c, FailBuild(c)) /\ FailBuild(c).scene = NoScene
      /\ FailBuild(c).life = "Failed"
  BY FailBuilds
<1>3. \/ d = c \/ d = FailBuild(c)
      \/ d = s /\ ~Waits(c, assets) /\ ~Refused(e, c)
  BY DEF TryBuild
<1> HIDE DEF d, s
<1> DEFINE G == /\ d \in Component /\ d.life \in {"Building", "Failed"} /\ d.regs = c.regs
                /\ \/ d = c
                   \/ Built(c, d) /\ (d.scene # NoScene =>
                        \A r \in d.regs : PrefabOf[r.owner] \notin BadPrefab /\ assets[PrefabOf[r.owner]] = "ready")
<1>4. ASSUME d = s, ~Waits(c, assets), ~Refused(e, c) PROVE G
  BY <1>1, <1>4 DEF Waits, Refused
<1>5. ASSUME d = FailBuild(c) PROVE G
  BY <1>2, <1>5 DEF Built
<1>6. G BY <1>3, <1>4, <1>5
<1> QED BY <1>6 DEF d

(* Such a step keeps what is known of the components.                       *)
LEMMA BuildKeepsComponents ==
  ASSUME NEW C, NEW new, NEW assets, NEW act, CompInv(C, act), BuildStep(C, new, assets)
  PROVE  CompInv(new, act)
<1>1. \A e \in SceneEntity : new[e].number = C[e].number
  BY DEF BuildStep, Built
<1>2. new \in [SceneEntity -> Component] /\ act \in Nat BY DEF BuildStep, CompInv
<1>3. ASSUME NEW e \in SceneEntity
      PROVE  /\ new[e].number <= act
             /\ new[e].life # "Inactive" => new[e].number # 0
             /\ new[e].scene # NoScene => new[e].scene = new[e].number
             /\ new[e].life \in {"Inactive", "Collecting", "Destroying"} => new[e].scene = NoScene /\ new[e].regs = {}
  BY DEF BuildStep, Built, CompInv
<1>4. \A e, f \in SceneEntity : new[e].number = new[f].number => e = f \/ new[e].number = 0
  BY <1>1 DEF CompInv
<1> QED BY <1>2, <1>3, <1>4 DEF CompInv

(* And of the scenes, those it creates included: scenes N for the           *)
(* components K, with the commands R at the end of the queue.               *)
Created(C, new, K, N, S, S2, R) ==
  /\ K = {e \in SceneEntity : new[e].scene # NoScene /\ C[e].scene = NoScene}
  /\ \A h \in N : \E e \in K : h = new[e].scene
  /\ \A e \in K : new[e].scene \in N
  /\ S2 \in [DOMAIN S \union N -> SceneState]
  /\ \A h \in DOMAIN S \union N : S2[h] = IF h \in N THEN [life |-> "Pending", partitions |-> {}] ELSE S[h]
  /\ R \in Seq(Command)
  /\ \A i \in 1 .. Len(R) : \E e \in K :
       R[i] = [op |-> "create", scene |-> new[e].scene, partitions |-> TokensOf(new[e].regs)]

StaysReady(assets, assets2) == \A p \in Prefab : assets[p] = "ready" => assets2[p] = "ready"

(* A scene created bears a number nobody else has, so no ready component's    *)
(* scene is touched.                                                          *)
LEMMA BuildKeepsScenes ==
  ASSUME NEW C, NEW new, NEW S, NEW Q, NEW assets, NEW assets2, NEW act,
         CompInv(C, act), SceneInv(C, S, Q, assets, act), BuildStep(C, new, assets2),
         StaysReady(assets, assets2), NEW K, NEW N, NEW S2, NEW R, Created(C, new, K, N, S, S2, R)
  PROVE  SceneInv(new, S2, Q \o R, assets2, act)
<1> DEFINE Q2 == Q \o R
<1>q. Q \in Seq(Command) /\ R \in Seq(Command) BY DEF SceneInv, Created
<1>e. Q2 \in Seq(Command) /\ \A i \in 1 .. Len(Q2) : \/ \E j \in 1 .. Len(Q) : Q2[i] = Q[j]
                                                     \/ \E j \in 1 .. Len(R) : Q2[i] = R[j]
  BY <1>q, ConcatElements
<1> HIDE DEF Q2
<1> USE DEF Created, StaysReady
<1> USE BuildAssumption
<1>0. DOMAIN S2 = DOMAIN S \union N OBVIOUS
<1>a. \A h \in N : \E e \in K : h = new[e].scene OBVIOUS
<1>1. CompInv(new, act) BY BuildKeepsComponents
<1>2. C \in [SceneEntity -> Component] /\ new \in [SceneEntity -> Component] /\ act \in Nat
  BY <1>1 DEF CompInv
<1>3. \A e \in SceneEntity : new[e].number \in Nat /\ new[e].regs \subseteq Reg
  BY <1>2 DEF Component
<1>4. \A e \in K : /\ e \in SceneEntity /\ C[e].life = "Building" /\ new[e].life = "Building"
                   /\ new[e].scene = new[e].number /\ new[e].scene \in 1 .. act
  <2> SUFFICES ASSUME NEW e \in K
               PROVE  /\ e \in SceneEntity /\ C[e].life = "Building" /\ new[e].life = "Building"
                      /\ new[e].scene = new[e].number /\ new[e].scene \in 1 .. act
    OBVIOUS
  <2>1. e \in SceneEntity /\ new[e].scene # NoScene /\ C[e].scene = NoScene OBVIOUS
  <2>2. Built(C[e], new[e]) BY <2>1 DEF BuildStep
  <2>3. new[e].life = "Building" /\ new[e].scene = new[e].number /\ C[e].life = "Building"
    BY <2>1, <2>2 DEF Built
  <2>4. new[e].number <= act /\ new[e].number # 0 /\ new[e].number \in Nat BY <1>1, <1>3, <2>1, <2>3 DEF CompInv
  <2> QED BY <1>2, <2>1, <2>3, <2>4
<1>5. \A e \in SceneEntity : C[e].scene # NoScene => new[e] = C[e] /\ e \notin K
  BY DEF BuildStep, Built
<1>6. DOMAIN S2 \subseteq 1 .. act /\ S2 \in [DOMAIN S2 -> SceneState]
  <2>1. N \subseteq 1 .. act BY <1>4
  <2>2. DOMAIN S \subseteq 1 .. act BY DEF SceneInv
  <2> QED BY <1>0, <2>1, <2>2
<1>7. ASSUME NEW e \in SceneEntity, new[e].scene # NoScene PROVE Accepted(new, assets2, e)
  <2>1. CASE C[e].scene # NoScene
    <3>1. new[e] = C[e] /\ Accepted(C, assets, e) BY <1>5, <2>1 DEF SceneInv
    <3>2. \A r \in new[e].regs : r \in Reg BY <1>3
    <3>3. \A r \in Reg : PrefabOf[r.owner] \in Prefab BY DEF Reg
    <3> QED BY <3>1, <3>2, <3>3 DEF Accepted
  <2>2. CASE C[e].scene = NoScene
    BY <1>7, <2>2 DEF BuildStep
  <2> QED BY <2>1, <2>2
<1>8. ASSUME NEW e \in SceneEntity, new[e].life = "Ready"
      PROVE  /\ new[e].scene # NoScene
             /\ new[e].scene \in DOMAIN S2 =>
                  S2[new[e].scene] = [life |-> "Alive", partitions |-> TokensOf(new[e].regs)]
  <2>1. new[e] = C[e] BY <1>8 DEF BuildStep, Built
  <2>2. new[e].scene # NoScene /\ e \notin K /\ new[e].scene = new[e].number /\ new[e].number # 0
    <3>1. C[e].life = "Ready" BY <1>8, <2>1
    <3>2. C[e].scene # NoScene BY <3>1 DEF SceneInv
    <3>3. C[e].scene = C[e].number /\ C[e].number # 0 BY <3>1, <3>2 DEF CompInv
    <3> QED BY <1>5, <2>1, <3>2, <3>3
  <2>3. new[e].scene \notin N
    <3> SUFFICES ASSUME new[e].scene \in N PROVE FALSE OBVIOUS
    <3>1. PICK f \in K : new[e].scene = new[f].scene BY <1>a
    <3>2. new[f].number = new[e].number /\ f \in SceneEntity BY <1>4, <2>2, <3>1
    <3>3. e = f BY <1>1, <2>2, <3>2 DEF CompInv
    <3> QED BY <2>2, <3>3
  <2>4. ASSUME new[e].scene \in DOMAIN S2
        PROVE  S2[new[e].scene] = [life |-> "Alive", partitions |-> TokensOf(new[e].regs)]
    <3>0. DOMAIN S2 = DOMAIN S \union N BY <1>0
    <3>1. new[e].scene \in DOMAIN S BY <2>3, <2>4, <3>0
    <3>2. S2[new[e].scene] = S[new[e].scene] BY <1>0, <2>3, <3>1
    <3> QED BY <1>8, <2>1, <3>1, <3>2 DEF SceneInv
  <2> QED BY <2>2, <2>4
<1>9. ASSUME NEW h \in DOMAIN S2, S2[h].life # "Destroying"
      PROVE  \E e \in SceneEntity : new[e].scene = h /\ new[e].life \in {"Building", "Ready"}
  <2>1. CASE h \in N
    <3>1. PICK e \in K : h = new[e].scene BY <1>a, <2>1
    <3> QED BY <1>4, <3>1
  <2>2. CASE h \notin N
    <3>1. h \in DOMAIN S /\ S2[h] = S[h] BY <1>0, <2>2
    <3>2. PICK e \in SceneEntity : C[e].scene = h /\ C[e].life \in {"Building", "Ready"}
      BY <1>9, <3>1 DEF SceneInv
    <3>3. h # NoScene BY <3>1, <1>2 DEF SceneInv
    <3> QED BY <1>5, <3>2, <3>3
  <2> QED BY <2>1, <2>2
<1>10. Q2 \in Seq(Command) /\ \A i \in 1 .. Len(Q2) : CommandOK(Q2[i], new, act)
  <2>1. Q \in Seq(Command) BY DEF SceneInv
  <2>3. \A i \in 1 .. Len(R) : CommandOK(R[i], new, act)
    <3> SUFFICES ASSUME NEW i \in 1 .. Len(R) PROVE CommandOK(R[i], new, act)
      OBVIOUS
    <3>1. PICK k \in K : R[i] = [op |-> "create", scene |-> new[k].scene, partitions |-> TokensOf(new[k].regs)]
      OBVIOUS
    <3>2. k \in SceneEntity /\ new[k].scene = new[k].number /\ new[k].scene \in 1 .. act BY <1>4
    <3>3. \A e \in SceneEntity : new[e].number = new[k].scene => e = k
      BY <1>1, <3>2 DEF CompInv
    <3> QED BY <3>1, <3>2, <3>3 DEF CommandOK
  <2>5. \A i \in 1 .. Len(Q) : CommandOK(Q[i], new, act)
    <3> SUFFICES ASSUME NEW i \in 1 .. Len(Q), Q[i].op = "create"
                 PROVE  /\ Q[i].scene \in 1 .. act
                        /\ \A e \in SceneEntity : new[e].number = Q[i].scene =>
                             new[e].life = "Destroying"
                             \/ (new[e].scene = Q[i].scene /\ Q[i].partitions = TokensOf(new[e].regs))
      BY DEF CommandOK
    <3>1. CommandOK(Q[i], C, act) BY DEF SceneInv
    <3>2. Q[i].scene \in 1 .. act BY <3>1 DEF CommandOK
    <3>3. Q[i].scene # NoScene BY <3>2, <1>2
    <3>4. ASSUME NEW e \in SceneEntity, new[e].number = Q[i].scene
          PROVE  new[e].life = "Destroying"
                 \/ (new[e].scene = Q[i].scene /\ Q[i].partitions = TokensOf(new[e].regs))
      <4>1. C[e].number = Q[i].scene BY <3>4 DEF BuildStep, Built
      <4>2. CASE C[e].life = "Destroying" BY <4>2 DEF BuildStep, Built
      <4>3. CASE C[e].life # "Destroying"
        <5>1. C[e].scene = Q[i].scene /\ Q[i].partitions = TokensOf(C[e].regs)
          BY <3>1, <4>1, <4>3 DEF CommandOK
        <5> QED BY <1>5, <3>3, <5>1
      <4> QED BY <4>2, <4>3
    <3> QED BY <3>2, <3>4
  <2> QED BY <2>3, <2>5, <1>e
<1>11. SceneInv(new, S2, Q2, assets2, act)
  BY <1>6, <1>7, <1>8, <1>9, <1>10 DEF SceneInv
<1> QED BY <1>11 DEF Q2

--------------------------------------------------------------------------------
(* The scenes CreateScenes makes.                                           *)
LEMMA CreateKeepsScenes ==
  ASSUME NEW C, NEW new, NEW assets2, NEW act, CompInv(C, act),
         SceneInv(C, m_scenes, m_commands, asset, act), BuildStep(C, new, assets2),
         StaysReady(asset, assets2),
         \A e \in SceneEntity : C[e].scene = comp[e].scene, CreateScenes(new)
  PROVE  SceneInv(new, m_scenes', m_commands', assets2, act)
<1> DEFINE K == {e \in SceneEntity : new[e].scene # NoScene /\ C[e].scene = NoScene}
           n == Cardinality(K)
<1>1. Creating(new) = K BY DEF Creating
<1>2. n \in Nat
  <2>1. IsFiniteSet(K) BY FS_Subset, BuildAssumption
  <2> QED BY <2>1, FS_CardinalityType
<1>3. PICK order \in Bijection(1 .. n, K) :
        /\ m_commands' = m_commands \o
            [i \in 1 .. n |-> [op |-> "create", scene |-> new[order[i]].scene,
                               partitions |-> TokensOf(new[order[i]].regs)]]
        /\ m_scenes' = [h \in DOMAIN m_scenes \union {new[e].scene : e \in K} |->
                           IF h \in {new[e].scene : e \in K} THEN [life |-> "Pending", partitions |-> {}]
                           ELSE m_scenes[h]]
  BY <1>1 DEF CreateScenes
<1>4. order \in [1 .. n -> K] BY <1>3 DEF Bijection, Injection
<1> DEFINE N == {new[e].scene : e \in K}
           R == [i \in 1 .. n |-> [op |-> "create", scene |-> new[order[i]].scene,
                                   partitions |-> TokensOf(new[order[i]].regs)]]
<1>5. K = {e \in SceneEntity : new[e].scene # NoScene /\ C[e].scene = NoScene} OBVIOUS
<1>6. (\A h \in N : \E e \in K : h = new[e].scene) /\ \A e \in K : new[e].scene \in N OBVIOUS
<1>7. m_scenes' = [h \in DOMAIN m_scenes \union N |->
                     IF h \in N THEN [life |-> "Pending", partitions |-> {}] ELSE m_scenes[h]]
  BY <1>3
<1>8. m_commands' = m_commands \o R BY <1>3
<1> HIDE DEF N
<1>9. /\ m_scenes' \in [DOMAIN m_scenes \union N -> SceneState]
      /\ \A h \in DOMAIN m_scenes \union N :
           m_scenes'[h] = IF h \in N THEN [life |-> "Pending", partitions |-> {}] ELSE m_scenes[h]
  <2>1. [life |-> "Pending", partitions |-> {}] \in SceneState BY DEF SceneState
  <2>2. m_scenes \in [DOMAIN m_scenes -> SceneState] BY DEF SceneInv
  <2> QED BY <1>7, <2>1, <2>2
<1>10. \A e \in K : [op |-> "create", scene |-> new[e].scene, partitions |-> TokensOf(new[e].regs)] \in Command
  <2> SUFFICES ASSUME NEW e \in K
               PROVE  [op |-> "create", scene |-> new[e].scene, partitions |-> TokensOf(new[e].regs)] \in Command
    OBVIOUS
  <2>1. e \in SceneEntity /\ new[e] \in Component /\ new[e].scene # NoScene BY DEF BuildStep
  <2>2. new[e].scene \in Nat /\ TokensOf(new[e].regs) \subseteq Token BY <2>1 DEF Component, Reg, TokensOf
  <2> QED BY <2>2 DEF Command
<1>11. \A i \in 1 .. n : order[i] \in K BY <1>4
<1> HIDE DEF K, n
<1>12. R \in Seq(Command) /\ Len(R) = n
  <2>1. R \in [1 .. n -> Command] BY <1>10, <1>11
  <2> HIDE DEF R
  <2> QED BY <1>2, <2>1
<1>13. \A i \in 1 .. Len(R) : \E e \in K :
          R[i] = [op |-> "create", scene |-> new[e].scene, partitions |-> TokensOf(new[e].regs)]
  BY <1>11, <1>12
<1> HIDE DEF R
<1>14. Created(C, new, K, N, m_scenes, m_scenes', R) BY <1>5, <1>6, <1>9, <1>12, <1>13 DEF Created
<1> QED BY <1>8, <1>14, BuildKeepsScenes

(* The end of a load, told to the components that wait for it.              *)
LEMMA ComponentsKeep ==
  ASSUME IndInv, NEW new, ComponentsStep(new), BuildStep(comp, new, asset'),
         asset' \in [Prefab -> {"unloaded", "loading", "ready", "error"}],
         StaysReady(asset, asset'),
         UNCHANGED <<sys, dropped, activations>>
  PROVE  IndInv'
<1> DEFINE X == Failing(new)
           T == UNION {TokensOf(new[e].regs) : e \in X}
<1>0. comp' = new /\ CreateScenes(new)
      /\ answers' = Answered(T, "failed")
  BY DEF ComponentsStep
<1>1. X \subseteq SceneEntity /\ \A e \in X : new[e].life = "Failed" /\ comp[e].life # "Failed"
  BY DEF Failing
<1>2. \A e \in SceneEntity : e \notin X /\ new[e].life = "Failed" => comp[e].life = "Failed"
  BY DEF Failing
<1>a. \A e \in X : \A r \in new[e].regs : r.token \in T BY DEF TokensOf
<1>b. \A t \in T : \E e \in X : t \in TokensOf(new[e].regs) OBVIOUS
<1> HIDE DEF X
<1>3. Types' BY DEF IndInv, Types
<1>4. CompInv(comp', activations') BY <1>0, BuildKeepsComponents DEF IndInv
<1>5. new \in [SceneEntity -> Component] /\ comp \in [SceneEntity -> Component]
  BY DEF BuildStep, IndInv, CompInv
<1>6. \A e \in SceneEntity : new[e].regs = comp[e].regs BY DEF BuildStep, Built
<1>7. \A e \in X : comp[e].life = "Building" BY <1>1 DEF BuildStep, Built
<1>8. \A e \in SceneEntity : e \notin X => new[e].life = comp[e].life
  BY <1>2 DEF BuildStep, Built
<1> DEFINE answer == "failed"
<1>9. \A e \in X : comp[e].life = "Building" /\ new[e].life = (IF answer = "ready" THEN "Ready" ELSE "Failed")
  BY <1>1, <1>7
<1>t. answers \in [Token -> Seq({"ready", "failed"})] BY DEF IndInv, AnsInv
<1>12. /\ answers' \in [Token -> Seq({"ready", "failed"})]
       /\ \A t \in Token : answers'[t] = IF t \in T THEN Append(answers[t], answer) ELSE answers[t]
       /\ \A t \in Token : answers'[t] = <<>> => t \notin T /\ answers[t] = <<>>
  <2>1. answer \in {"ready", "failed"} OBVIOUS
  <2>2. answers' = Answered(T, answer) BY <1>0
  <2> HIDE DEF answer, T
  <2> QED BY <1>t, <2>1, <2>2, AnsweredTypes
<1>10. AnsInv(new, answers', sys.next)
  <2>1. AnsInv(comp, answers, sys.next) BY DEF IndInv
  <2>2. answer \in {"ready", "failed"} OBVIOUS
  <2>3. (\A t \in T : \E e \in X : t \in TokensOf(comp[e].regs)) /\ \A e \in X : TokensOf(comp[e].regs) \subseteq T
    BY <1>1, <1>6
  <2> HIDE DEF answer, T
  <2>4. HeldAnswered(comp, answers, new, answers', X, T, answer)
    BY <1>1, <1>5, <1>6, <1>8, <1>9, <1>12, <2>2, <2>3 DEF HeldAnswered
  <2> QED BY <2>1, <2>4, AnswerHeld
<1>11. SceneInv(comp', m_scenes', m_commands', asset', activations')
  BY <1>0, CreateKeepsScenes DEF IndInv
<1> HIDE DEF T
<1>13. PendingInv'
  <2>1. ASSUME ~sys.closed, NEW r \in sys.pending
        PROVE  answers'[r.token] = <<>> /\ \A e \in SceneEntity : r.token \notin TokensOf(new[e].regs)
    <3>1. answers[r.token] = <<>> /\ \A e \in SceneEntity : r.token \notin TokensOf(new[e].regs)
      BY <2>1, <1>6 DEF IndInv, PendingInv
    <3>2. r.token \notin T BY <1>b, <1>1, <3>1
    <3>3. r.token \in Token BY DEF IndInv, Types, Reg
    <3> QED BY <1>12, <3>1, <3>2, <3>3
  <2>2. ASSUME ~sys.closed, NEW e \in Entities PROVE new[e].life = "Collecting"
    <3>1. comp[e].life = "Collecting" BY <2>2 DEF IndInv, PendingInv
    <3>2. e \in SceneEntity BY DEF IndInv, Types, Entities
    <3> QED BY <3>1, <3>2 DEF BuildStep, Built
  <2>3. sys' = sys OBVIOUS
  <2>4. Entities' = Entities BY DEF Entities
  <2>5. /\ \A r \in sys.pending : r.token < sys.next
        /\ \A r, q \in sys.pending : r.token = q.token => r = q
    BY DEF IndInv, PendingInv
  <2> QED BY <1>0, <2>1, <2>2, <2>3, <2>4, <2>5 DEF PendingInv
<1>14. NoneLost'
  <2> SUFFICES ASSUME NEW t \in Token, Collected(t)', answers'[t] = <<>>, t \notin dropped
               PROVE  \E e \in SceneEntity : new[e].life = "Building" /\ t \in TokensOf(new[e].regs)
    BY <1>0 DEF NoneLost
  <2>1. Collected(t) /\ answers[t] = <<>> /\ t \notin T BY <1>12 DEF Collected
  <2>2. PICK e \in SceneEntity : comp[e].life = "Building" /\ t \in TokensOf(comp[e].regs)
    BY <2>1 DEF IndInv, NoneLost
  <2>3. e \notin X
    <3> SUFFICES ASSUME e \in X PROVE FALSE OBVIOUS
    <3>1. PICK r \in new[e].regs : r.token = t BY <2>2, <1>6 DEF TokensOf
    <3> QED BY <1>a, <2>1, <3>1
  <2> QED BY <1>6, <1>8, <2>2, <2>3
<1> QED BY <1>0, <1>3, <1>4, <1>10, <1>11, <1>13, <1>14 DEF IndInv

(* OnAssetReady.                                                              *)
LEMMA AssetReadyKeeps == ASSUME IndInv, NEW p \in Prefab, OnAssetReady(p) PROVE IndInv'
<1> DEFINE new == [e \in SceneEntity |-> IF Listening(e, p) THEN TryBuild(e, comp[e], asset') ELSE comp[e]]
<1>1. asset \in [Prefab -> {"unloaded", "loading", "ready", "error"}] /\ asset' = [asset EXCEPT ![p] = "ready"]
  BY DEF OnAssetReady, IndInv, Types
<1>2. /\ asset' \in [Prefab -> {"unloaded", "loading", "ready", "error"}]
      /\ StaysReady(asset, asset')
  BY <1>1 DEF StaysReady
<1>3. comp \in [SceneEntity -> Component] BY DEF IndInv, CompInv
<1>4. \A e \in SceneEntity : /\ new[e] \in Component
                             /\ \/ new[e] = comp[e]
                                \/ Built(comp[e], new[e]) /\ (new[e].scene # NoScene => Accepted(new, asset', e))
  <2> SUFFICES ASSUME NEW e \in SceneEntity
               PROVE  /\ new[e] \in Component
                      /\ \/ new[e] = comp[e]
                         \/ Built(comp[e], new[e]) /\ (new[e].scene # NoScene => Accepted(new, asset', e))
    OBVIOUS
  <2>1. CASE Listening(e, p)
    <3>1. new[e] = TryBuild(e, comp[e], asset') BY <2>1
    <3>2. comp[e] \in Component /\ comp[e].life = "Building" /\ comp[e].scene = NoScene
      BY <2>1, <1>3 DEF Listening
    <3> HIDE DEF new
    <3> QED BY <3>1, <3>2, TryBuilds DEF Accepted
  <2>2. CASE ~Listening(e, p) BY <1>3, <2>2
  <2> QED BY <2>1, <2>2
<1>5. new \in [SceneEntity -> Component] BY <1>4
<1>6. ComponentsStep(new) BY DEF OnAssetReady
<1>7. UNCHANGED <<sys, dropped, activations>> BY DEF OnAssetReady, history, counters
<1> HIDE DEF new
<1>8. BuildStep(comp, new, asset') BY <1>4, <1>5 DEF BuildStep
<1> QED BY <1>2, <1>6, <1>7, <1>8, ComponentsKeep

(* OnAssetError and OnAssetCanceled.                                          *)
LEMMA AssetErrorKeeps == ASSUME IndInv, NEW p \in Prefab, OnAssetError(p) PROVE IndInv'
<1> DEFINE new == [e \in SceneEntity |-> IF Listening(e, p) THEN FailBuild(comp[e]) ELSE comp[e]]
<1>1. asset \in [Prefab -> {"unloaded", "loading", "ready", "error"}] /\ asset' = [asset EXCEPT ![p] = "error"]
      /\ asset[p] = "loading"
  BY DEF OnAssetError, IndInv, Types
<1>2. /\ asset' \in [Prefab -> {"unloaded", "loading", "ready", "error"}]
      /\ StaysReady(asset, asset')
  BY <1>1 DEF StaysReady
<1>3. comp \in [SceneEntity -> Component] BY DEF IndInv, CompInv
<1>4. \A e \in SceneEntity : /\ new[e] \in Component
                             /\ \/ new[e] = comp[e]
                                \/ Built(comp[e], new[e]) /\ new[e].scene = NoScene
  <2> SUFFICES ASSUME NEW e \in SceneEntity
               PROVE  /\ new[e] \in Component
                      /\ \/ new[e] = comp[e]
                         \/ Built(comp[e], new[e]) /\ new[e].scene = NoScene
    OBVIOUS
  <2>1. CASE Listening(e, p)
    <3>1. new[e] = FailBuild(comp[e]) BY <2>1
    <3>2. comp[e] \in Component /\ comp[e].life = "Building" /\ comp[e].scene = NoScene
      BY <2>1, <1>3 DEF Listening
    <3> HIDE DEF new
    <3> QED BY <3>1, <3>2, FailBuilds
  <2>2. CASE ~Listening(e, p) BY <1>3, <2>2
  <2> QED BY <2>1, <2>2
<1>5. new \in [SceneEntity -> Component] BY <1>4
<1>6. ComponentsStep(new) BY DEF OnAssetError
<1>7. UNCHANGED <<sys, dropped, activations>> BY DEF OnAssetError, history, counters
<1> HIDE DEF new
<1>8. BuildStep(comp, new, asset') BY <1>4, <1>5 DEF BuildStep
<1> QED BY <1>2, <1>6, <1>7, <1>8, ComponentsKeep

--------------------------------------------------------------------------------
(* The end of the collection: the registered components begin to build with *)
(* the registrations that target them, and then fail, wait or go on.        *)
RegsOf(e) == {r \in sys.pending : Targets(r, e)}
Beginning == [e \in SceneEntity |-> IF e \in Entities
                THEN [comp[e] EXCEPT !.life = "Building", !.regs = RegsOf(e)] ELSE comp[e]]

(* Those who begin were collecting: without registrations, without scene.     *)
LEMMA BeginningFacts ==
  ASSUME IndInv, ~sys.closed
  PROVE  /\ Entities \subseteq SceneEntity
         /\ Beginning \in [SceneEntity -> Component]
         /\ \A e \in Entities :
              /\ comp[e].life = "Collecting" /\ comp[e].regs = {} /\ comp[e].scene = NoScene
              /\ comp[e].number # 0
              /\ Beginning[e] = [comp[e] EXCEPT !.life = "Building", !.regs = RegsOf(e)]
              /\ Beginning[e].life = "Building" /\ Beginning[e].regs = RegsOf(e)
              /\ Beginning[e].scene = NoScene /\ Beginning[e].number = comp[e].number
         /\ \A e \in SceneEntity : e \notin Entities => Beginning[e] = comp[e]
<1>1. Entities \subseteq SceneEntity BY DEF IndInv, Types, Entities
<1>2. comp \in [SceneEntity -> Component] BY DEF IndInv, CompInv
<1>3. \A e \in Entities : /\ comp[e].life = "Collecting" /\ comp[e].regs = {} /\ comp[e].scene = NoScene
                          /\ comp[e].number # 0
  BY <1>1 DEF IndInv, PendingInv, CompInv
<1>4. \A e \in Entities : Beginning[e] = [comp[e] EXCEPT !.life = "Building", !.regs = RegsOf(e)]
  BY <1>1 DEF Beginning
<1>5. \A e \in SceneEntity : RegsOf(e) \subseteq Reg BY DEF RegsOf, IndInv, Types
<1>6. ASSUME NEW e \in Entities
      PROVE  /\ Beginning[e] \in Component
             /\ Beginning[e].life = "Building" /\ Beginning[e].regs = RegsOf(e)
             /\ Beginning[e].scene = NoScene /\ Beginning[e].number = comp[e].number
  <2> DEFINE R == RegsOf(e)
  <2>1. R \subseteq Reg /\ comp[e] \in Component /\ comp[e].scene = NoScene BY <1>1, <1>2, <1>3, <1>5
  <2>2. Beginning[e] = [comp[e] EXCEPT !.life = "Building", !.regs = R] BY <1>4
  <2> HIDE DEF R
  <2>3. /\ Beginning[e] \in Component
        /\ Beginning[e].life = "Building" /\ Beginning[e].regs = R
        /\ Beginning[e].scene = NoScene /\ Beginning[e].number = comp[e].number
    BY <2>1, <2>2 DEF Component, Lives
  <2> QED BY <2>3 DEF R
<1>7. \A e \in SceneEntity : e \notin Entities => Beginning[e] = comp[e] BY DEF Beginning
<1>8. \A e \in SceneEntity : Beginning[e] \in Component BY <1>2, <1>6, <1>7
<1>9. Beginning \in [SceneEntity -> Component] BY <1>8 DEF Beginning
<1> QED BY <1>1, <1>3, <1>4, <1>6, <1>7, <1>9

(* A registration targets one component; a target it has is not unresolved. *)
LEMMA TargetFacts ==
  ASSUME IndInv
  PROVE  /\ \A r \in sys.pending : \A e, f : Targets(r, e) /\ Targets(r, f) => e = f
         /\ \A r \in sys.pending : Unresolved(r) => \A e \in Entities : ~Targets(r, e)
         /\ \A r \in sys.pending : ~Unresolved(r) => \E e \in Entities : Targets(r, e)
<1>1. Defaults \subseteq Entities /\ Entities \subseteq SceneEntity
  BY DEF Defaults, Entities, IndInv, Types
<1>2. IsFiniteSet(Defaults) BY <1>1, FS_Subset, BuildAssumption
<1>3. \A e : Cardinality({e}) = 1 BY FS_Singleton
<1>4. Cardinality(Defaults) = 1 => \E e \in Defaults : Defaults = {e}
  <2> SUFFICES ASSUME Cardinality(Defaults) = 1 PROVE \E e \in Defaults : Defaults = {e}
    OBVIOUS
  <2>1. PICK e : Defaults = {e} BY <1>2, FS_Singleton
  <2> QED BY <2>1
<1> HIDE DEF Defaults
<1>5. \A r \in sys.pending : \A e, f : Targets(r, e) /\ Targets(r, f) => e = f
  BY DEF Targets
<1>6. ASSUME NEW r \in sys.pending, Unresolved(r), NEW e \in Entities, Targets(r, e) PROVE FALSE
  <2>1. CASE r.target = NoEntity
    <3>1. Defaults = {e} BY <1>6, <2>1 DEF Targets
    <3>2. Cardinality(Defaults) # 1 BY <1>6, <2>1 DEF Unresolved
    <3> QED BY <1>3, <3>1, <3>2
  <2>2. CASE r.target # NoEntity BY <1>6, <2>2 DEF Targets, Unresolved
  <2> QED BY <2>1, <2>2
<1>7. ASSUME NEW r \in sys.pending, ~Unresolved(r) PROVE \E e \in Entities : Targets(r, e)
  <2>1. CASE r.target = NoEntity
    <3>1. Cardinality(Defaults) = 1 BY <1>7, <2>1 DEF Unresolved
    <3>2. PICK e \in Defaults : Defaults = {e} BY <1>4, <3>1
    <3> QED BY <1>1, <2>1, <3>2 DEF Targets
  <2>2. CASE r.target # NoEntity BY <1>7, <2>2 DEF Targets, Unresolved
  <2> QED BY <2>1, <2>2
<1> QED BY <1>5, <1>6, <1>7

(* Beginning to build gives every registration to one component.              *)
LEMMA BeginningKeeps ==
  ASSUME IndInv, ~sys.closed
  PROVE  /\ CompInv(Beginning, activations)
         /\ AnsInv(Beginning, answers, sys.next)
         /\ SceneInv(Beginning, m_scenes, m_commands, asset, activations)
<1> DEFINE D == Beginning
<1>1. /\ Entities \subseteq SceneEntity
      /\ D \in [SceneEntity -> Component]
      /\ \A e \in Entities :
           /\ comp[e].life = "Collecting" /\ comp[e].regs = {} /\ comp[e].scene = NoScene
           /\ comp[e].number # 0
           /\ D[e].life = "Building" /\ D[e].regs = RegsOf(e)
           /\ D[e].scene = NoScene /\ D[e].number = comp[e].number
      /\ \A e \in SceneEntity : e \notin Entities => D[e] = comp[e]
  BY BeginningFacts
<1> HIDE DEF D
<1> USE BuildAssumption
<1>2. \A e \in SceneEntity : D[e].number = comp[e].number /\ D[e].scene = comp[e].scene
  BY <1>1
<1>3. CompInv(D, activations)
  <2>1. CompInv(comp, activations) BY DEF IndInv
  <2>2. ASSUME NEW e \in SceneEntity
        PROVE  /\ D[e].number <= activations
               /\ D[e].life # "Inactive" => D[e].number # 0
               /\ D[e].scene # NoScene => D[e].scene = D[e].number
               /\ D[e].life \in {"Inactive", "Collecting", "Destroying"} => D[e].scene = NoScene /\ D[e].regs = {}
    <3>1. CASE e \in Entities BY <1>1, <1>2, <2>1, <3>1 DEF CompInv
    <3>2. CASE e \notin Entities
      <4>1. D[e] = comp[e] BY <1>1, <3>2
      <4> QED BY <2>1, <4>1 DEF CompInv
    <3> QED BY <3>1, <3>2
  <2>3. \A e, f \in SceneEntity : D[e].number = D[f].number => e = f \/ D[e].number = 0
    BY <1>2, <2>1 DEF CompInv
  <2>4. activations \in Nat BY <2>1 DEF CompInv
  <2> QED BY <1>1, <2>2, <2>3, <2>4 DEF CompInv
<1>4. AnsInv(D, answers, sys.next)
  <2>1. AnsInv(comp, answers, sys.next) BY DEF IndInv
  <2>2. \A e \in Entities : \A r \in D[e].regs :
          /\ r \in sys.pending /\ Targets(r, e) /\ r.token < sys.next /\ answers[r.token] = <<>>
          /\ \A f \in SceneEntity : r.token \notin TokensOf(comp[f].regs)
    BY <1>1 DEF RegsOf, IndInv, PendingInv
  <2>3. ASSUME NEW e \in SceneEntity, NEW r \in D[e].regs
        PROVE  /\ r.token < sys.next
               /\ D[e].life = "Building" => answers[r.token] = <<>>
               /\ D[e].life = "Ready" => answers[r.token] = <<"ready">>
    <3>1. CASE e \in Entities BY <1>1, <2>2, <3>1
    <3>2. CASE e \notin Entities
      <4>1. D[e] = comp[e] BY <1>1, <3>2
      <4> QED BY <2>1, <4>1 DEF AnsInv
    <3> QED BY <3>1, <3>2
  <2>4. ASSUME NEW e \in SceneEntity, NEW f \in SceneEntity, NEW r \in D[e].regs, NEW q \in D[f].regs,
               r.token = q.token
        PROVE  e = f
    <3>0. \A x \in SceneEntity : \A z \in comp[x].regs : z.token \in TokensOf(comp[x].regs) BY DEF TokensOf
    <3>1. CASE e \in Entities /\ f \in Entities
      <4>1. r = q BY <2>2, <2>4, <3>1 DEF IndInv, PendingInv
      <4>2. Targets(r, e) /\ Targets(r, f) /\ r \in sys.pending BY <2>2, <3>1, <4>1
      <4> QED BY <4>2, TargetFacts
    <3>2. CASE e \in Entities /\ f \notin Entities
      <4>1. q \in comp[f].regs BY <1>1, <3>2
      <4> QED BY <2>2, <2>4, <3>0, <3>2, <4>1
    <3>3. CASE e \notin Entities /\ f \in Entities
      <4>1. r \in comp[e].regs BY <1>1, <3>3
      <4> QED BY <2>2, <2>4, <3>0, <3>3, <4>1
    <3>4. CASE e \notin Entities /\ f \notin Entities
      <4>1. D[e] = comp[e] /\ D[f] = comp[f] BY <1>1, <3>4
      <4> QED BY <2>1, <2>4, <4>1 DEF AnsInv
    <3> QED BY <3>1, <3>2, <3>3, <3>4
  <2>5. /\ answers \in [Token -> Seq({"ready", "failed"})] /\ sys.next \in Nat
        /\ \A t \in Token : Len(answers[t]) <= 1
        /\ \A t \in Token : t >= sys.next => answers[t] = <<>>
    BY <2>1 DEF AnsInv
  <2> QED BY <2>3, <2>4, <2>5 DEF AnsInv
<1>5. SceneInv(D, m_scenes, m_commands, asset, activations)
  <2>1. SceneInv(comp, m_scenes, m_commands, asset, activations) BY DEF IndInv
  <2>0. /\ m_scenes \in [DOMAIN m_scenes -> SceneState] /\ DOMAIN m_scenes \subseteq 1 .. activations
        /\ m_commands \in Seq(Command) /\ activations \in Nat
    BY <2>1, <1>3 DEF SceneInv, CompInv
  <2>2. ASSUME NEW e \in SceneEntity
        PROVE  /\ D[e].scene # NoScene => Accepted(D, asset, e)
               /\ D[e].life = "Ready" =>
                    /\ D[e].scene # NoScene
                    /\ D[e].scene \in DOMAIN m_scenes =>
                         m_scenes[D[e].scene] = [life |-> "Alive", partitions |-> TokensOf(D[e].regs)]
    <3>1. CASE e \in Entities BY <1>1, <3>1
    <3>2. CASE e \notin Entities
      <4>1. D[e] = comp[e] BY <1>1, <3>2
      <4> QED BY <2>1, <4>1 DEF SceneInv, Accepted
    <3> QED BY <3>1, <3>2
  <2>3. ASSUME NEW h \in DOMAIN m_scenes, m_scenes[h].life # "Destroying"
        PROVE  \E e \in SceneEntity : D[e].scene = h /\ D[e].life \in {"Building", "Ready"}
    <3>1. PICK e \in SceneEntity : comp[e].scene = h /\ comp[e].life \in {"Building", "Ready"}
      BY <2>1, <2>3 DEF SceneInv
    <3> QED BY <1>1, <3>1
  <2>4. ASSUME NEW i \in 1 .. Len(m_commands) PROVE CommandOK(m_commands[i], D, activations)
    <3> DEFINE c == m_commands[i]
    <3>1. CommandOK(c, comp, activations) BY <2>1 DEF SceneInv
    <3> HIDE DEF c
    <3>2. SUFFICES ASSUME c.op = "create"
                   PROVE  /\ c.scene \in 1 .. activations
                          /\ \A e \in SceneEntity : D[e].number = c.scene =>
                               D[e].life = "Destroying"
                               \/ (D[e].scene = c.scene /\ c.partitions = TokensOf(D[e].regs))
      BY DEF CommandOK, c
    <3>3. c.scene \in 1 .. activations BY <3>1, <3>2 DEF CommandOK
    <3>4. c.scene # NoScene BY <2>0, <3>3
    <3>5. ASSUME NEW e \in SceneEntity, D[e].number = c.scene
          PROVE  D[e].life = "Destroying" \/ (D[e].scene = c.scene /\ c.partitions = TokensOf(D[e].regs))
      <4>1. comp[e].life = "Destroying" \/ (comp[e].scene = c.scene /\ c.partitions = TokensOf(comp[e].regs))
        BY <1>2, <3>1, <3>2, <3>5 DEF CommandOK
      <4>2. e \notin Entities BY <1>1, <3>4, <4>1
      <4> QED BY <1>1, <4>1, <4>2
    <3> QED BY <3>3, <3>5
  <2> QED BY <2>0, <2>2, <2>3, <2>4 DEF SceneInv
<1> QED BY <1>3, <1>4, <1>5 DEF D

(* What BeginBuild makes of a component is a step from its beginning.       *)
LEMMA BeginBuilds ==
  ASSUME IndInv, ~sys.closed, NEW assets2, StaysReady(asset, assets2),
         NEW new, new = [e \in SceneEntity |-> IF e \in Entities THEN BeginBuild(e, comp[e], RegsOf(e)) ELSE comp[e]]
  PROVE  /\ BuildStep(Beginning, new, assets2)
         /\ \A e \in Entities : new[e].life \in {"Building", "Failed"}
         /\ \A e \in SceneEntity : e \notin Entities => new[e] = comp[e]
<1>1. \A e \in SceneEntity : new[e] = IF e \in Entities THEN BeginBuild(e, comp[e], RegsOf(e)) ELSE comp[e]
  OBVIOUS
<1>2. ASSUME NEW e \in Entities
      PROVE  /\ new[e] \in Component /\ new[e].life \in {"Building", "Failed"}
             /\ \/ new[e] = Beginning[e]
                \/ Built(Beginning[e], new[e]) /\ (new[e].scene # NoScene => Accepted(new, assets2, e))
  <2> DEFINE c == Beginning[e]
  <2>1. /\ e \in SceneEntity /\ c \in Component /\ c.life = "Building" /\ c.scene = NoScene
        /\ comp[e].life = "Collecting" /\ c = [comp[e] EXCEPT !.life = "Building", !.regs = RegsOf(e)]
    BY BeginningFacts
  <2>2. new[e] = BeginBuild(e, comp[e], RegsOf(e)) BY <1>1, <2>1
  <2>3. new[e] = FailBuild(c) \/ new[e] = TryBuild(e, c, asset)
    BY <2>1, <2>2 DEF BeginBuild
  <2> HIDE DEF c
  <2>4. CASE new[e] = FailBuild(c)
    <3>1. new[e] \in Component /\ Built(c, new[e]) /\ new[e].scene = NoScene /\ new[e].life = "Failed"
      BY <2>1, <2>4, FailBuilds
    <3> QED BY <3>1 DEF c
  <2>5. CASE new[e] = TryBuild(e, c, asset)
    <3> DEFINE d == TryBuild(e, c, asset)
    <3>0. new[e] = d BY <2>5
    <3>1. /\ d \in Component /\ d.life \in {"Building", "Failed"}
          /\ \/ d = c
             \/ Built(c, d) /\ (d.scene # NoScene =>
                  \A r \in d.regs : PrefabOf[r.owner] \notin BadPrefab /\ asset[PrefabOf[r.owner]] = "ready")
      BY <2>1, TryBuilds
    <3>2. \A r \in d.regs : PrefabOf[r.owner] \in Prefab
      <4>1. d.regs \subseteq Reg BY <3>1 DEF Component
      <4>2. \A r \in Reg : PrefabOf[r.owner] \in Prefab BY BuildAssumption DEF Reg
      <4> QED BY <4>1, <4>2
    <3> HIDE DEF d
    <3> QED BY <3>0, <3>1, <3>2 DEF c, Accepted, StaysReady
  <2> QED BY <2>3, <2>4, <2>5
<1>3. ASSUME NEW e \in SceneEntity, e \notin Entities
      PROVE  new[e] = comp[e] /\ new[e] = Beginning[e] /\ new[e] \in Component
  BY <1>1, <1>3, BeginningFacts
<1>4. \A e \in SceneEntity : new[e] \in Component BY <1>2, <1>3
<1>5. new \in [SceneEntity -> Component] BY <1>4
<1>6. \A e \in SceneEntity :
       \/ new[e] = Beginning[e]
       \/ Built(Beginning[e], new[e]) /\ (new[e].scene # NoScene => Accepted(new, assets2, e))
  BY <1>2, <1>3
<1>7. BuildStep(Beginning, new, assets2) BY <1>5, <1>6 DEF BuildStep
<1> QED BY <1>2, <1>3, <1>7

(* OnRootSpawnableReady: what is not resolved is answered, the rest is held.  *)
LEMMA CollectionKeeps == ASSUME IndInv, OnRootSpawnableReady PROVE IndInv'
<1> DEFINE new == [e \in SceneEntity |-> IF e \in Entities THEN BeginBuild(e, comp[e], RegsOf(e)) ELSE comp[e]]
           loads == UNION {Loaded(RegsOf(e)) : e \in {f \in Entities : comp[f].life = "Collecting"}}
           U == TokensOf({r \in sys.pending : Unresolved(r)})
           X == {f \in Entities : new[f].life = "Failed"}
           T == UNION {TokensOf(new[e].regs) : e \in X}
           answer == "failed"
           B == Answered(T, answer)
<1>0. /\ sys.active /\ ~sys.closed /\ sys' = [sys EXCEPT !.closed = TRUE] /\ comp' = new /\ CreateScenes(new)
      /\ asset' = [p \in Prefab |-> IF p \in loads /\ asset[p] = "unloaded" THEN "loading" ELSE asset[p]]
      /\ answers' = [t \in Token |-> B[t] \o (IF t \in U THEN <<"failed">> ELSE <<>>)]
      /\ UNCHANGED <<dropped, activations>>
  BY DEF OnRootSpawnableReady, CollectionEnds, RegsOf, history, counters
<1>s. sys \in [active : BOOLEAN, closed : BOOLEAN, entities : SUBSET [entity : SceneEntity, default : BOOLEAN],
               pending : SUBSET Reg, next : Nat]
  BY DEF IndInv, Types
<1>1. sys'.next = sys.next /\ sys'.pending = sys.pending /\ sys'.entities = sys.entities /\ sys'.closed
  BY <1>0, <1>s
<1>2. asset' \in [Prefab -> {"unloaded", "loading", "ready", "error"}] /\ StaysReady(asset, asset')
  <2>1. asset \in [Prefab -> {"unloaded", "loading", "ready", "error"}] BY DEF IndInv, Types
  <2> HIDE DEF loads
  <2> QED BY <1>0, <2>1 DEF StaysReady
<1>3. Types' BY <1>0, <1>s, <1>2 DEF Types
<1>4. new = [e \in SceneEntity |-> IF e \in Entities THEN BeginBuild(e, comp[e], RegsOf(e)) ELSE comp[e]] OBVIOUS
<1>x. X \subseteq Entities /\ (\A e \in X : new[e].life = "Failed") /\ \A e \in Entities : e \notin X => new[e].life # "Failed"
  OBVIOUS
<1>u. (\A r \in sys.pending : Unresolved(r) => r.token \in U) /\ \A t \in U : \E r \in sys.pending : Unresolved(r) /\ r.token = t
  BY DEF TokensOf
<1>t. (\A t \in T : \E e \in X : t \in TokensOf(new[e].regs)) /\ \A e \in X : TokensOf(new[e].regs) \subseteq T
  OBVIOUS
<1> HIDE DEF new, X, U, T, B, loads, answer
<1>5. /\ BuildStep(Beginning, new, asset')
      /\ \A e \in Entities : new[e].life \in {"Building", "Failed"}
      /\ \A e \in SceneEntity : e \notin Entities => new[e] = comp[e]
  BY <1>0, <1>2, <1>4, BeginBuilds
<1>6. CompInv(Beginning, activations) /\ AnsInv(Beginning, answers, sys.next)
      /\ SceneInv(Beginning, m_scenes, m_commands, asset, activations)
  BY <1>0, BeginningKeeps
<1>7. /\ Entities \subseteq SceneEntity /\ Beginning \in [SceneEntity -> Component]
      /\ \A e \in Entities : Beginning[e].life = "Building" /\ Beginning[e].regs = RegsOf(e)
                             /\ Beginning[e].scene = NoScene /\ comp[e].scene = NoScene
      /\ \A e \in SceneEntity : e \notin Entities => Beginning[e] = comp[e]
  BY <1>0, BeginningFacts
<1>8. CompInv(comp', activations') BY <1>0, <1>5, <1>6, BuildKeepsComponents
<1>9. SceneInv(comp', m_scenes', m_commands', asset', activations')
  <2>1. \A e \in SceneEntity : Beginning[e].scene = comp[e].scene BY <1>7
  <2>2. SceneInv(new, m_scenes', m_commands', asset', activations)
    BY <1>0, <1>2, <1>5, <1>6, <2>1, CreateKeepsScenes
  <2> QED BY <1>0, <2>2
<1>10. new \in [SceneEntity -> Component] /\ \A e \in SceneEntity : new[e].regs = Beginning[e].regs
  BY <1>5 DEF BuildStep, Built
<1>11. answer \in {"ready", "failed"} /\ answer # "ready" BY DEF answer
<1>12. answers \in [Token -> Seq({"ready", "failed"})] BY DEF IndInv, AnsInv
<1>13. /\ B \in [Token -> Seq({"ready", "failed"})]
       /\ \A t \in Token : /\ B[t] = IF t \in T THEN Append(answers[t], answer) ELSE answers[t]
                           /\ B[t] = <<>> => t \notin T /\ answers[t] = <<>>
  BY <1>11, <1>12, AnsweredTypes DEF B
<1>14. AnsInv(new, B, sys.next)
  <2>1. \A e \in X : Beginning[e].life = "Building" /\ new[e].life = (IF answer = "ready" THEN "Ready" ELSE "Failed")
    BY <1>7, <1>11, <1>x
  <2>2. \A e \in SceneEntity : e \notin X => new[e].life = Beginning[e].life
    BY <1>5, <1>7, <1>x
  <2>3. (\A t \in T : \E e \in X : t \in TokensOf(Beginning[e].regs)) /\ \A e \in X : TokensOf(Beginning[e].regs) \subseteq T
    BY <1>t, <1>x, <1>7, <1>10
  <2>4. X \subseteq SceneEntity BY <1>x, <1>7
  <2>5. HeldAnswered(Beginning, answers, new, B, X, T, answer)
    BY <1>7, <1>10, <1>11, <1>13, <2>1, <2>2, <2>3, <2>4 DEF HeldAnswered
  <2> QED BY <1>6, <2>5, AnswerHeld
<1>15. \A e \in Entities : \A r \in new[e].regs : r \in sys.pending /\ Targets(r, e)
  BY <1>7, <1>10 DEF RegsOf
<1>16. \A t \in U : /\ t \in Token /\ t < sys.next /\ answers[t] = <<>>
                    /\ \A e \in SceneEntity : \A r \in new[e].regs : r.token # t
  <2> SUFFICES ASSUME NEW t \in U
               PROVE  /\ t \in Token /\ t < sys.next /\ answers[t] = <<>>
                      /\ \A e \in SceneEntity : \A r \in new[e].regs : r.token # t
    OBVIOUS
  <2>1. PICK r \in sys.pending : Unresolved(r) /\ r.token = t BY <1>u
  <2>2. t \in Token BY <2>1, <1>s DEF Reg
  <2>3. t < sys.next /\ answers[t] = <<>> /\ \A e \in SceneEntity : t \notin TokensOf(comp[e].regs)
    BY <1>0, <2>1 DEF IndInv, PendingInv
  <2>4. ASSUME NEW e \in SceneEntity, NEW q \in new[e].regs, q.token = t PROVE FALSE
    <3>1. CASE e \in Entities
      <4>1. q \in sys.pending /\ Targets(q, e) BY <1>15, <3>1
      <4>2. q = r BY <2>1, <2>4, <4>1 DEF IndInv, PendingInv
      <4> QED BY <2>1, <3>1, <4>1, <4>2, TargetFacts
    <3>2. CASE e \notin Entities
      <4>1. q \in comp[e].regs BY <1>5, <3>2
      <4> QED BY <2>3, <2>4, <4>1 DEF TokensOf
    <3> QED BY <3>1, <3>2
  <2> QED BY <2>2, <2>3, <2>4
<1>17. \A t \in U : B[t] = <<>>
  <2> SUFFICES ASSUME NEW t \in U PROVE B[t] = <<>> OBVIOUS
  <2>1. t \notin T
    <3> SUFFICES ASSUME t \in T PROVE FALSE OBVIOUS
    <3>1. PICK e \in X : t \in TokensOf(new[e].regs) BY <1>t
    <3>2. e \in SceneEntity BY <1>x, <1>7
    <3> QED BY <1>16, <3>1, <3>2 DEF TokensOf
  <2> QED BY <1>13, <1>16, <2>1
<1>18. /\ answers' \in [Token -> Seq({"ready", "failed"})]
       /\ \A t \in Token : answers'[t] = B[t] \o (IF t \in U THEN <<"failed">> ELSE <<>>)
  <2>1. \A t \in Token : B[t] \o (IF t \in U THEN <<"failed">> ELSE <<>>) \in Seq({"ready", "failed"})
    <3> SUFFICES ASSUME NEW t \in Token
                 PROVE  B[t] \o (IF t \in U THEN <<"failed">> ELSE <<>>) \in Seq({"ready", "failed"})
      OBVIOUS
    <3> DEFINE q == IF t \in U THEN <<"failed">> ELSE <<>>
               p == B[t]
    <3>0. <<"failed">> \in Seq({"ready", "failed"}) /\ <<>> \in Seq({"ready", "failed"}) OBVIOUS
    <3>1. p \in Seq({"ready", "failed"}) /\ q \in Seq({"ready", "failed"}) BY <1>13, <3>0
    <3> HIDE DEF p, q
    <3>2. p \o q \in Seq({"ready", "failed"}) BY <3>1
    <3> QED BY <3>2 DEF p, q
  <2> QED BY <1>0, <2>1
<1>19. AnsInv(comp', answers', sys'.next)
  <2>1. UnheldAnswered(new, B, sys.next, answers', U)
    BY <1>10, <1>16, <1>17, <1>18 DEF UnheldAnswered
  <2>2. AnsInv(new, answers', sys.next) BY <1>14, <2>1, AnswerUnheld
  <2> QED BY <1>0, <1>1, <2>2
<1>20. PendingInv'
  <2>1. /\ \A r \in sys.pending : r.token < sys.next
        /\ \A r, q \in sys.pending : r.token = q.token => r = q
    BY DEF IndInv, PendingInv
  <2> QED BY <1>1, <2>1 DEF PendingInv
<1>21. NoneLost'
  <2> SUFFICES ASSUME NEW t \in Token, Collected(t)', answers'[t] = <<>>, t \notin dropped
               PROVE  \E e \in SceneEntity : new[e].life = "Building" /\ t \in TokensOf(new[e].regs)
    BY <1>0 DEF NoneLost
  <2>1. PICK r \in sys.pending : r.token = t BY <1>1 DEF Collected
  <2>2. t \notin U
    <3> SUFFICES ASSUME t \in U PROVE FALSE OBVIOUS
    <3>1. answers'[t] = <<>> \o <<"failed">> BY <1>17, <1>18
    <3>2. <<>> \o <<"failed">> = <<"failed">> OBVIOUS
    <3>3. <<"failed">> # <<>> OBVIOUS
    <3> QED BY <3>1, <3>2, <3>3
  <2>3. answers'[t] = B[t]
    <3>1. B[t] \in Seq({"ready", "failed"}) BY <1>13
    <3>2. B[t] \o <<>> = B[t] BY <3>1
    <3> QED BY <1>18, <2>2, <3>2
  <2>4. t \notin T BY <1>13, <2>3
  <2>5. PICK e \in Entities : Targets(r, e) BY <1>u, <2>1, <2>2, TargetFacts
  <2>6. r \in new[e].regs /\ e \in SceneEntity BY <1>7, <1>10, <2>5 DEF RegsOf
  <2>7. t \in TokensOf(new[e].regs) BY <2>1, <2>6 DEF TokensOf
  <2>8. e \notin X BY <1>t, <2>4, <2>7
  <2> QED BY <1>5, <1>x, <2>5, <2>6, <2>7, <2>8
<1> QED BY <1>3, <1>8, <1>9, <1>19, <1>20, <1>21 DEF IndInv

--------------------------------------------------------------------------------
(* The queue.                                                               *)

(* Head and tail of the queue are commands it had.                          *)
LEMMA TailKeeps ==
  ASSUME NEW Q \in Seq(Command), Q # <<>>, NEW C, NEW act, \A i \in 1 .. Len(Q) : CommandOK(Q[i], C, act)
  PROVE  /\ Tail(Q) \in Seq(Command) /\ \A i \in 1 .. Len(Tail(Q)) : CommandOK(Tail(Q)[i], C, act)
         /\ Head(Q) \in Command /\ CommandOK(Head(Q), C, act)
<1>1. Len(Q) \in Nat /\ Len(Q) >= 1 /\ Len(Tail(Q)) = Len(Q) - 1 /\ Tail(Q) \in Seq(Command) OBVIOUS
<1>2. \A i \in 1 .. Len(Tail(Q)) : Tail(Q)[i] = Q[i + 1] /\ i + 1 \in 1 .. Len(Q) BY <1>1
<1>3. Head(Q) = Q[1] /\ 1 \in 1 .. Len(Q) /\ Head(Q) \in Command BY <1>1
<1> QED BY <1>1, <1>2, <1>3

(* A component that goes on from building with its scene: ready or failed.  *)
Ended(C, new, X, life) ==
  /\ new \in [SceneEntity -> Component] /\ X \subseteq SceneEntity
  /\ \A e \in SceneEntity : new[e].regs = C[e].regs /\ new[e].scene = C[e].scene /\ new[e].number = C[e].number
  /\ \A e \in SceneEntity : e \notin X => new[e] = C[e]
  /\ \A e \in X : C[e].life = "Building" /\ C[e].scene # NoScene /\ new[e].life = life

(* What is queued for others stays as it was asked for.                       *)
LEMMA EndedKeeps ==
  ASSUME NEW C, NEW new, NEW X, NEW life \in {"Ready", "Failed"}, NEW act, CompInv(C, act), Ended(C, new, X, life)
  PROVE  /\ CompInv(new, act)
         /\ \A c : CommandOK(c, C, act) => CommandOK(c, new, act)
<1> USE DEF Ended
<1>1. ASSUME NEW e \in SceneEntity
      PROVE  /\ new[e].number <= act
             /\ new[e].life # "Inactive" => new[e].number # 0
             /\ new[e].scene # NoScene => new[e].scene = new[e].number
             /\ new[e].life \in {"Inactive", "Collecting", "Destroying"} => new[e].scene = NoScene /\ new[e].regs = {}
  BY DEF CompInv
<1>2. \A e, f \in SceneEntity : new[e].number = new[f].number => e = f \/ new[e].number = 0
  BY DEF CompInv
<1>3. CompInv(new, act) BY <1>1, <1>2 DEF CompInv
<1>4. ASSUME NEW c, CommandOK(c, C, act) PROVE CommandOK(c, new, act)
  <2>1. \A e \in SceneEntity : C[e].life = "Destroying" => new[e].life = "Destroying" OBVIOUS
  <2> QED BY <1>4, <2>1 DEF CommandOK
<1> QED BY <1>3, <1>4

(* The answers to those who end, and what is left of the other parts.       *)
HeldBy(X) == UNION {TokensOf(comp[e].regs) : e \in X}

(* Only those who end are answered, and they hold what they are told of.      *)
LEMMA EndedAnswers ==
  ASSUME IndInv, NEW new, NEW X, NEW answer \in {"ready", "failed"},
         Ended(comp, new, X, IF answer = "ready" THEN "Ready" ELSE "Failed"),
         comp' = new, answers' = Answered(HeldBy(X), answer),
         UNCHANGED <<sys, dropped>>
  PROVE  AnsInv(comp', answers', sys'.next) /\ PendingInv' /\ NoneLost'
<1> DEFINE T == HeldBy(X)
<1>0. answers' = Answered(T, answer) OBVIOUS
<1>1. (\A t \in T : \E e \in X : t \in TokensOf(comp[e].regs)) /\ \A e \in X : TokensOf(comp[e].regs) \subseteq T
  BY DEF HeldBy
<1> HIDE DEF T
<1>2. answers \in [Token -> Seq({"ready", "failed"})] BY DEF IndInv, AnsInv
<1>3. /\ answers' \in [Token -> Seq({"ready", "failed"})]
      /\ \A t \in Token : answers'[t] = IF t \in T THEN Append(answers[t], answer) ELSE answers[t]
      /\ \A t \in Token : answers'[t] = <<>> => t \notin T /\ answers[t] = <<>>
  BY <1>0, <1>2, AnsweredTypes
<1>4. comp \in [SceneEntity -> Component] BY DEF IndInv, CompInv
<1>5. HeldAnswered(comp, answers, new, answers', X, T, answer)
  BY <1>1, <1>3, <1>4 DEF HeldAnswered, Ended
<1>6. AnsInv(new, answers', sys.next)
  <2>1. AnsInv(comp, answers, sys.next) BY DEF IndInv
  <2> QED BY <1>5, <2>1, AnswerHeld
<1>7. PendingInv'
  <2>1. ASSUME ~sys.closed, NEW r \in sys.pending
        PROVE  answers'[r.token] = <<>> /\ \A e \in SceneEntity : r.token \notin TokensOf(new[e].regs)
    <3>1. answers[r.token] = <<>> /\ \A e \in SceneEntity : r.token \notin TokensOf(comp[e].regs)
      BY <2>1 DEF IndInv, PendingInv
    <3>2. r.token \notin T BY <1>1, <3>1 DEF Ended
    <3>3. r.token \in Token BY DEF IndInv, Types, Reg
    <3> QED BY <1>3, <3>1, <3>2, <3>3 DEF Ended
  <2>2. ASSUME ~sys.closed, NEW e \in Entities PROVE new[e].life = "Collecting"
    <3>1. comp[e].life = "Collecting" BY <2>2 DEF IndInv, PendingInv
    <3>2. e \in SceneEntity BY DEF IndInv, Types, Entities
    <3> QED BY <3>1, <3>2 DEF Ended
  <2>4. Entities' = Entities BY DEF Entities
  <2>5. /\ \A r \in sys.pending : r.token < sys.next
        /\ \A r, q \in sys.pending : r.token = q.token => r = q
    BY DEF IndInv, PendingInv
  <2> QED BY <2>1, <2>2, <2>4, <2>5 DEF PendingInv
<1>8. NoneLost'
  <2> SUFFICES ASSUME NEW t \in Token, Collected(t)', answers'[t] = <<>>, t \notin dropped
               PROVE  \E e \in SceneEntity : new[e].life = "Building" /\ t \in TokensOf(new[e].regs)
    BY DEF NoneLost
  <2>1. Collected(t) /\ answers[t] = <<>> /\ t \notin T BY <1>3 DEF Collected
  <2>2. PICK e \in SceneEntity : comp[e].life = "Building" /\ t \in TokensOf(comp[e].regs)
    BY <2>1 DEF IndInv, NoneLost
  <2>3. e \notin X BY <1>1, <2>1, <2>2
  <2> QED BY <2>2, <2>3 DEF Ended
<1> QED BY <1>6, <1>7, <1>8

(* Who a command ends: its one builder, which asked for just that.          *)
LEMMA BuilderFacts ==
  ASSUME IndInv, NEW c \in Command, c.op = "create", CommandOK(c, comp, activations)
  PROVE  /\ c.scene \in Nat /\ c.scene # NoScene /\ c.scene \in 1 .. activations
         /\ Builder(c.scene) \subseteq SceneEntity
         /\ \A e \in Builder(c.scene) : /\ comp[e].life = "Building" /\ comp[e].scene = c.scene
                                        /\ comp[e].scene = comp[e].number
                                        /\ c.partitions = TokensOf(comp[e].regs)
         /\ c.partitions \subseteq Token
<1>1. c.scene \in 1 .. activations /\ activations \in Nat BY DEF CommandOK, IndInv, CompInv
<1>2. c.scene \in Nat /\ c.scene # NoScene BY <1>1, BuildAssumption
<1>3. c \in [op : {"create"}, scene : Nat, partitions : SUBSET Token] BY DEF Command
<1>4. c.partitions \subseteq Token BY <1>3
<1>5. Builder(c.scene) \subseteq SceneEntity
      /\ \A e \in Builder(c.scene) : comp[e].life = "Building" /\ comp[e].scene = c.scene
  BY DEF Builder
<1>6. \A e \in Builder(c.scene) : comp[e].scene = comp[e].number
  BY <1>2, <1>5 DEF IndInv, CompInv
<1>7. \A e \in Builder(c.scene) : c.partitions = TokensOf(comp[e].regs)
  BY <1>5, <1>6 DEF CommandOK
<1> QED BY <1>1, <1>2, <1>4, <1>5, <1>6, <1>7

(* What SceneReady and SceneFailed make of the builder.                       *)
LEMMA BuilderEnds ==
  ASSUME IndInv, NEW c \in Command, c.op = "create", CommandOK(c, comp, activations), NEW life \in {"Ready", "Failed"}
  PROVE  Ended(comp, [e \in SceneEntity |-> IF e \in Builder(c.scene) THEN [comp[e] EXCEPT !.life = life] ELSE comp[e]],
               Builder(c.scene), life)
<1> DEFINE X == Builder(c.scene)
           new == [e \in SceneEntity |-> IF e \in X THEN [comp[e] EXCEPT !.life = life] ELSE comp[e]]
<1>1. /\ c.scene # NoScene /\ X \subseteq SceneEntity
      /\ \A e \in X : comp[e].life = "Building" /\ comp[e].scene = c.scene
  BY BuilderFacts
<1> HIDE DEF X
<1>2. comp \in [SceneEntity -> Component] BY DEF IndInv, CompInv
<1>3. ASSUME NEW e \in X
      PROVE  /\ [comp[e] EXCEPT !.life = life] \in Component
             /\ [comp[e] EXCEPT !.life = life].life = life
             /\ [comp[e] EXCEPT !.life = life].regs = comp[e].regs
             /\ [comp[e] EXCEPT !.life = life].scene = comp[e].scene
             /\ [comp[e] EXCEPT !.life = life].number = comp[e].number
  <2>1. comp[e] \in Component BY <1>1, <1>2
  <2> QED BY <2>1 DEF Component, Lives
<1>4. \A e \in SceneEntity : new[e] = IF e \in X THEN [comp[e] EXCEPT !.life = life] ELSE comp[e]
  OBVIOUS
<1>5. \A e \in SceneEntity : new[e] \in Component BY <1>2, <1>3, <1>4
<1>6. new \in [SceneEntity -> Component] BY <1>5
<1> HIDE DEF new
<1>7. \A e \in SceneEntity : new[e].regs = comp[e].regs /\ new[e].scene = comp[e].scene /\ new[e].number = comp[e].number
  BY <1>3, <1>4
<1>8. Ended(comp, new, X, life)
  BY <1>1, <1>3, <1>4, <1>6, <1>7 DEF Ended
<1> QED BY <1>8 DEF new, X

(* The creation of a scene that succeeds.                                     *)
LEMMA SceneReadyKeeps ==
  ASSUME IndInv, NEW c \in Command, c.op = "create", CommandOK(c, comp, activations),
         c.scene \in DOMAIN m_scenes, m_scenes[c.scene].life = "Pending", SceneReady(c),
         NEW Q \in Seq(Command), \A i \in 1 .. Len(Q) : CommandOK(Q[i], comp, activations), m_commands' = Q,
         UNCHANGED <<sys, asset, dropped, activations>>
  PROVE  IndInv'
<1> DEFINE X == Builder(c.scene)
           new == [e \in SceneEntity |-> IF e \in X THEN [comp[e] EXCEPT !.life = "Ready"] ELSE comp[e]]
<1>0. /\ comp' = new /\ answers' = Answered(HeldBy(X), "ready")
      /\ m_scenes' = [m_scenes EXCEPT ![c.scene] = [life |-> "Alive", partitions |-> c.partitions]]
  BY DEF SceneReady, HeldBy
<1>1. /\ c.scene \in Nat /\ c.scene # NoScene /\ c.scene \in 1 .. activations
      /\ X \subseteq SceneEntity
      /\ \A e \in X : /\ comp[e].life = "Building" /\ comp[e].scene = c.scene
                      /\ comp[e].scene = comp[e].number
                      /\ c.partitions = TokensOf(comp[e].regs)
      /\ c.partitions \subseteq Token
  BY BuilderFacts
<1>2. Ended(comp, new, X, "Ready") BY BuilderEnds
<1>x. \A e \in SceneEntity : comp[e].life = "Building" /\ comp[e].scene = c.scene => e \in X BY DEF Builder
<1> HIDE DEF new, X
<1>3. CompInv(new, activations) /\ \A d : CommandOK(d, comp, activations) => CommandOK(d, new, activations)
  <2>1. CompInv(comp, activations) BY DEF IndInv
  <2> QED BY <1>2, <2>1, EndedKeeps
<1>4. AnsInv(comp', answers', sys'.next) /\ PendingInv' /\ NoneLost'
  <2> DEFINE answer == "ready"
  <2>1. answer \in {"ready", "failed"} /\ Ended(comp, new, X, IF answer = "ready" THEN "Ready" ELSE "Failed")
    BY <1>2
  <2>2. answers' = Answered(HeldBy(X), answer) BY <1>0
  <2> HIDE DEF answer
  <2> QED BY <1>0, <2>1, <2>2, EndedAnswers
<1>5. SceneInv(new, m_scenes', Q, asset, activations)
  <2>1. SceneInv(comp, m_scenes, m_commands, asset, activations) /\ activations \in Nat BY DEF IndInv, CompInv
  <2>2. m_scenes \in [DOMAIN m_scenes -> SceneState] /\ DOMAIN m_scenes \subseteq 1 .. activations
    BY <2>1 DEF SceneInv
  <2> DEFINE alive == [life |-> "Alive", partitions |-> c.partitions]
  <2>3. alive \in SceneState BY <1>1 DEF SceneState
  <2>a. alive.life = "Alive" OBVIOUS
  <2>b. m_scenes' = [m_scenes EXCEPT ![c.scene] = alive] BY <1>0
  <2> HIDE DEF alive
  <2>4. /\ DOMAIN m_scenes' = DOMAIN m_scenes /\ m_scenes' \in [DOMAIN m_scenes' -> SceneState]
        /\ m_scenes'[c.scene] = alive
        /\ \A h \in DOMAIN m_scenes : h # c.scene => m_scenes'[h] = m_scenes[h]
    BY <2>b, <2>2, <2>3
  <2>5. ASSUME NEW e \in SceneEntity
        PROVE  /\ new[e].scene # NoScene => Accepted(new, asset, e)
               /\ new[e].life = "Ready" =>
                    /\ new[e].scene # NoScene
                    /\ new[e].scene \in DOMAIN m_scenes' =>
                         m_scenes'[new[e].scene] = [life |-> "Alive", partitions |-> TokensOf(new[e].regs)]
    <3>1. new[e].scene = comp[e].scene /\ new[e].regs = comp[e].regs BY <1>2 DEF Ended
    <3>2. new[e].scene # NoScene => Accepted(new, asset, e)
      BY <2>1, <3>1 DEF SceneInv, Accepted
    <3>3. CASE e \in X
      <4>1. new[e].scene = c.scene /\ c.partitions = TokensOf(new[e].regs) BY <1>1, <3>1, <3>3
      <4>2. m_scenes'[new[e].scene] = [life |-> "Alive", partitions |-> TokensOf(new[e].regs)]
        BY <2>4, <4>1 DEF alive
      <4> QED BY <1>1, <3>2, <4>1, <4>2
    <3>4. CASE e \notin X
      <4>1. new[e] = comp[e] BY <1>2, <3>4 DEF Ended
      <4>2. SUFFICES ASSUME comp[e].life = "Ready"
                     PROVE  /\ comp[e].scene # NoScene
                            /\ comp[e].scene \in DOMAIN m_scenes =>
                                 m_scenes'[comp[e].scene] = [life |-> "Alive", partitions |-> TokensOf(comp[e].regs)]
        BY <2>4, <3>2, <4>1
      <4>3. /\ comp[e].scene # NoScene
            /\ comp[e].scene \in DOMAIN m_scenes =>
                 m_scenes[comp[e].scene] = [life |-> "Alive", partitions |-> TokensOf(comp[e].regs)]
        BY <2>1, <4>2 DEF SceneInv
      <4>4. comp[e].scene # c.scene BY <4>3
      <4> QED BY <2>4, <4>3, <4>4
    <3> QED BY <3>3, <3>4
  <2>6. ASSUME NEW h \in DOMAIN m_scenes', m_scenes'[h].life # "Destroying"
        PROVE  \E e \in SceneEntity : new[e].scene = h /\ new[e].life \in {"Building", "Ready"}
    <3>1. h \in DOMAIN m_scenes /\ m_scenes[h].life # "Destroying" BY <2>4, <2>6
    <3>2. PICK e \in SceneEntity : comp[e].scene = h /\ comp[e].life \in {"Building", "Ready"}
      BY <2>1, <3>1 DEF SceneInv
    <3> QED BY <1>2, <3>2 DEF Ended
  <2>7. \A i \in 1 .. Len(Q) : CommandOK(Q[i], new, activations) BY <1>3
  <2> QED BY <2>2, <2>4, <2>5, <2>6, <2>7 DEF SceneInv
<1>6. Types' BY DEF IndInv, Types
<1> QED BY <1>0, <1>3, <1>4, <1>5, <1>6 DEF IndInv

(* A scene that goes: with its builder, which fails, or already destroyed.  *)
Removed(S, S2, h) == S2 = [g \in DOMAIN S \ {h} |-> S[g]]
CommandsOK(Q, C, act) == Q \in Seq(Command) /\ \A i \in 1 .. Len(Q) : CommandOK(Q[i], C, act)

(* No scene of another component goes with it.                                *)
LEMMA SceneGone ==
  ASSUME NEW C, NEW new, NEW S, NEW S2, NEW Q, NEW Q2, NEW assets, NEW act, NEW h, NEW X, CompInv(C, act),
         SceneInv(C, S, Q, assets, act), Ended(C, new, X, "Failed"),
         Removed(S, S2, h), \A e \in X : C[e].scene = h, CommandsOK(Q2, C, act)
  PROVE  SceneInv(new, S2, Q2, assets, act)
<1> USE DEF Removed, CommandsOK
<1>1. S \in [DOMAIN S -> SceneState] /\ DOMAIN S \subseteq 1 .. act BY DEF SceneInv
<1>2. /\ DOMAIN S2 = DOMAIN S \ {h} /\ S2 \in [DOMAIN S2 -> SceneState]
      /\ \A g \in DOMAIN S2 : S2[g] = S[g]
  BY <1>1
<1>3. ASSUME NEW e \in SceneEntity
      PROVE  /\ new[e].scene # NoScene => Accepted(new, assets, e)
             /\ new[e].life = "Ready" =>
                  /\ new[e].scene # NoScene
                  /\ new[e].scene \in DOMAIN S2 =>
                       S2[new[e].scene] = [life |-> "Alive", partitions |-> TokensOf(new[e].regs)]
  <2>1. new[e].scene = C[e].scene /\ new[e].regs = C[e].regs BY DEF Ended
  <2>2. new[e].scene # NoScene => Accepted(new, assets, e)
    BY <2>1 DEF SceneInv, Accepted
  <2>3. ASSUME new[e].life = "Ready"
        PROVE  /\ new[e].scene # NoScene
               /\ new[e].scene \in DOMAIN S2 =>
                    S2[new[e].scene] = [life |-> "Alive", partitions |-> TokensOf(new[e].regs)]
    <3>1. new[e] = C[e] /\ C[e].life = "Ready" BY <2>3 DEF Ended
    <3>2. /\ C[e].scene # NoScene
          /\ C[e].scene \in DOMAIN S => S[C[e].scene] = [life |-> "Alive", partitions |-> TokensOf(C[e].regs)]
      BY <3>1 DEF SceneInv
    <3> QED BY <1>2, <3>1, <3>2
  <2> QED BY <2>2, <2>3
<1>4. ASSUME NEW g \in DOMAIN S2, S2[g].life # "Destroying"
      PROVE  \E e \in SceneEntity : new[e].scene = g /\ new[e].life \in {"Building", "Ready"}
  <2>1. g \in DOMAIN S /\ g # h /\ S[g].life # "Destroying" BY <1>2, <1>4
  <2>2. PICK e \in SceneEntity : C[e].scene = g /\ C[e].life \in {"Building", "Ready"} BY <2>1 DEF SceneInv
  <2>3. e \notin X BY <2>1, <2>2
  <2> QED BY <2>2, <2>3 DEF Ended
<1>5. \A i \in 1 .. Len(Q2) : CommandOK(Q2[i], new, act)
  <2>1. \A c : CommandOK(c, C, act) => CommandOK(c, new, act) BY EndedKeeps
  <2> QED BY <2>1
<1>6. DOMAIN S2 \subseteq 1 .. act BY <1>1, <1>2
<1> QED BY <1>2, <1>3, <1>4, <1>5, <1>6 DEF SceneInv

(* The creation of a scene that fails.                                        *)
LEMMA SceneFailedKeeps ==
  ASSUME IndInv, NEW c \in Command, c.op = "create", CommandOK(c, comp, activations), SceneFailed(c),
         NEW Q \in Seq(Command), \A i \in 1 .. Len(Q) : CommandOK(Q[i], comp, activations), m_commands' = Q,
         UNCHANGED <<sys, asset, dropped, activations>>
  PROVE  IndInv'
<1> DEFINE X == Builder(c.scene)
           new == [e \in SceneEntity |-> IF e \in X THEN [comp[e] EXCEPT !.life = "Failed"] ELSE comp[e]]
<1>0. /\ comp' = new /\ answers' = Answered(HeldBy(X), "failed")
      /\ m_scenes' = [h \in DOMAIN m_scenes \ {c.scene} |-> m_scenes[h]]
  BY DEF SceneFailed, HeldBy, FailBuild
<1>1. \A e \in X : comp[e].scene = c.scene BY BuilderFacts
<1>2. Ended(comp, new, X, "Failed") BY BuilderEnds
<1> HIDE DEF new, X
<1>3. CompInv(new, activations)
  <2>1. CompInv(comp, activations) BY DEF IndInv
  <2> QED BY <1>2, <2>1, EndedKeeps
<1>4. AnsInv(comp', answers', sys'.next) /\ PendingInv' /\ NoneLost'
  <2> DEFINE answer == "failed"
  <2>1. answer \in {"ready", "failed"} /\ Ended(comp, new, X, IF answer = "ready" THEN "Ready" ELSE "Failed")
    BY <1>2
  <2>2. answers' = Answered(HeldBy(X), answer) BY <1>0
  <2> HIDE DEF answer
  <2> QED BY <1>0, <2>1, <2>2, EndedAnswers
<1>5. SceneInv(new, m_scenes', Q, asset, activations)
  <2>1. Removed(m_scenes, m_scenes', c.scene) BY <1>0 DEF Removed
  <2>2. CommandsOK(Q, comp, activations) BY DEF CommandsOK
  <2>3. SceneInv(comp, m_scenes, m_commands, asset, activations) /\ CompInv(comp, activations) BY DEF IndInv
  <2> QED BY <1>1, <1>2, <2>1, <2>2, <2>3, SceneGone
<1>6. Types' BY DEF IndInv, Types
<1> QED BY <1>0, <1>3, <1>4, <1>5, <1>6 DEF IndInv

(* The head of the queue, whatever it is.                                     *)
LEMMA ProcessKeeps == ASSUME IndInv, Process PROVE IndInv'
<1> DEFINE c == Head(m_commands)
           Q == Tail(m_commands)
<1>1. /\ m_commands \in Seq(Command) /\ m_commands # <<>>
      /\ \A i \in 1 .. Len(m_commands) : CommandOK(m_commands[i], comp, activations)
  BY DEF IndInv, SceneInv, Process
<1>2. /\ Q \in Seq(Command) /\ \A i \in 1 .. Len(Q) : CommandOK(Q[i], comp, activations)
      /\ c \in Command /\ CommandOK(c, comp, activations)
  BY <1>1, TailKeeps
<1>3. /\ m_commands' = Q /\ UNCHANGED <<sys, asset, dropped, activations>>
      /\ \/ c.op = "create" /\ ProcessCreate(c)
         \/ c.op = "destroy" /\ ProcessDestroy(c)
  BY DEF Process, history, counters
<1> HIDE DEF c, Q
<1>s. SceneInv(comp, m_scenes, m_commands, asset, activations) /\ CompInv(comp, activations) BY DEF IndInv
<1>q. CommandsOK(Q, comp, activations) BY <1>2 DEF CommandsOK
<1>u. ASSUME UNCHANGED <<comp, answers>>, SceneInv(comp, m_scenes', Q, asset, activations) PROVE IndInv'
  <2>1. Types' /\ CompInv(comp', activations') /\ AnsInv(comp', answers', sys'.next)
    BY <1>3, <1>u DEF IndInv, Types
  <2>2. Entities' = Entities BY <1>3 DEF Entities
  <2>3. PendingInv' BY <1>3, <1>u, <2>2 DEF IndInv, PendingInv
  <2>4. NoneLost' BY <1>3, <1>u DEF IndInv, NoneLost, Collected
  <2>5. SceneInv(comp', m_scenes', m_commands', asset', activations') BY <1>3, <1>u
  <2> QED BY <2>1, <2>3, <2>4, <2>5 DEF IndInv
<1>4. CASE c.op = "create" /\ ProcessCreate(c)
  <2>1. CASE c.scene \in DOMAIN m_scenes /\ m_scenes[c.scene].life = "Pending"
    <3>1. SceneReady(c) \/ SceneFailed(c) BY <1>4, <2>1 DEF ProcessCreate
    <3>2. CASE SceneReady(c) BY <1>2, <1>3, <1>4, <2>1, <3>2, SceneReadyKeeps
    <3>3. CASE SceneFailed(c) BY <1>2, <1>3, <1>4, <3>3, SceneFailedKeeps
    <3> QED BY <3>1, <3>2, <3>3
  <2>2. CASE ~(c.scene \in DOMAIN m_scenes /\ m_scenes[c.scene].life = "Pending")
    <3>1. UNCHANGED <<m_scenes, comp, answers>> BY <1>4, <2>2 DEF ProcessCreate
    <3>2. SceneInv(comp, m_scenes', Q, asset, activations) BY <1>2, <1>s, <3>1 DEF SceneInv
    <3> QED BY <1>u, <3>1, <3>2
  <2> QED BY <2>1, <2>2
<1>5. CASE c.op = "destroy" /\ ProcessDestroy(c)
  <2>1. UNCHANGED <<comp, answers>> /\ Removed(m_scenes, m_scenes', c.scene)
    BY <1>5 DEF ProcessDestroy, Removed
  <2> DEFINE X == {}
  <2>2. Ended(comp, comp, X, "Failed") /\ \A e \in X : comp[e].scene = c.scene
    BY <1>s DEF Ended, CompInv
  <2> HIDE DEF X
  <2>3. SceneInv(comp, m_scenes', Q, asset, activations) BY <1>q, <1>s, <2>1, <2>2, SceneGone
  <2> QED BY <1>u, <2>1, <2>3
<1> QED BY <1>3, <1>4, <1>5

--------------------------------------------------------------------------------
(* A scene entity comes and goes.                                           *)

(* Its component alone changes, to one that holds nothing.                  *)
Emptied(C, new, e) ==
  /\ new \in [SceneEntity -> Component] /\ e \in SceneEntity
  /\ \A f \in SceneEntity : f # e => new[f] = C[f]
  /\ new[e].regs = {} /\ new[e].scene = NoScene

(* Whoever else holds tokens keeps them.                                      *)
LEMMA EmptiedAnswers ==
  ASSUME NEW C, NEW new, NEW e, NEW A, NEW next, Emptied(C, new, e), AnsInv(C, A, next)
  PROVE  AnsInv(new, A, next)
<1>1. ASSUME NEW f \in SceneEntity, NEW r \in new[f].regs
      PROVE  /\ r \in C[f].regs /\ new[f] = C[f]
             /\ r.token < next
             /\ new[f].life = "Building" => A[r.token] = <<>>
             /\ new[f].life = "Ready" => A[r.token] = <<"ready">>
  <2>1. new[f] = C[f] BY DEF Emptied
  <2> QED BY <2>1 DEF AnsInv
<1>2. \A f, g \in SceneEntity : \A r \in new[f].regs, q \in new[g].regs : r.token = q.token => f = g
  BY <1>1 DEF AnsInv
<1>3. /\ A \in [Token -> Seq({"ready", "failed"})] /\ next \in Nat
      /\ \A t \in Token : Len(A[t]) <= 1
      /\ \A t \in Token : t >= next => A[t] = <<>>
  BY DEF AnsInv
<1> QED BY <1>1, <1>2, <1>3 DEF AnsInv

(* Deactivate of a ScenePolytreeComponent, in whatever state it is.           *)
LEMMA DeactivateSceneKeeps == ASSUME IndInv, NEW e \in SceneEntity, DeactivateScene(e) PROVE IndInv'
<1> USE BuildAssumption
<1> DEFINE new == [comp EXCEPT ![e].life = "Destroying", ![e].regs = {}, ![e].scene = NoScene]
           h == comp[e].scene
           entities == {entry \in sys.entities : entry.entity # e}
<1>0. /\ comp[e].life \notin {"Inactive", "Destroying"} /\ comp' = new
      /\ sys' = [sys EXCEPT !.entities = entities] /\ DestroyScene(h)
      /\ dropped' = dropped \union TokensOf(comp[e].regs) /\ UNCHANGED <<asset, answers, activations>>
  BY DEF DeactivateScene, counters
<1>1. comp \in [SceneEntity -> Component] BY DEF IndInv, CompInv
<1>2. /\ new \in [SceneEntity -> Component]
      /\ \A f \in SceneEntity : f # e => new[f] = comp[f]
      /\ new[e].life = "Destroying" /\ new[e].regs = {} /\ new[e].scene = NoScene /\ new[e].number = comp[e].number
  <2>1. comp[e] \in Component BY <1>1
  <2>2. new = [comp EXCEPT ![e] = [comp[e] EXCEPT !.life = "Destroying", !.regs = {}, !.scene = NoScene]]
    BY <1>1, <2>1
  <2>3. [comp[e] EXCEPT !.life = "Destroying", !.regs = {}, !.scene = NoScene] \in Component
    BY <2>1 DEF Component, Lives
  <2> QED BY <1>1, <2>1, <2>2, <2>3 DEF Component
<1> HIDE DEF new
<1>3. Emptied(comp, new, e) BY <1>2 DEF Emptied
<1>s. sys \in [active : BOOLEAN, closed : BOOLEAN, entities : SUBSET [entity : SceneEntity, default : BOOLEAN],
               pending : SUBSET Reg, next : Nat]
  BY DEF IndInv, Types
<1>t. entities \subseteq sys.entities /\ \A entry \in entities : entry.entity # e OBVIOUS
<1> HIDE DEF entities
<1>4. /\ sys'.closed = sys.closed /\ sys'.pending = sys.pending /\ sys'.next = sys.next /\ sys'.entities = entities
      /\ sys' \in [active : BOOLEAN, closed : BOOLEAN, entities : SUBSET [entity : SceneEntity, default : BOOLEAN],
                   pending : SUBSET Reg, next : Nat]
  BY <1>0, <1>s, <1>t
<1>5. Types' BY <1>0, <1>4 DEF IndInv, Types
<1>6. CompInv(new, activations)
  <2>1. CompInv(comp, activations) BY DEF IndInv
  <2>2. \A f \in SceneEntity : new[f].number = comp[f].number BY <1>2
  <2>3. ASSUME NEW f \in SceneEntity
        PROVE  /\ new[f].number <= activations
               /\ new[f].life # "Inactive" => new[f].number # 0
               /\ new[f].scene # NoScene => new[f].scene = new[f].number
               /\ new[f].life \in {"Inactive", "Collecting", "Destroying"} => new[f].scene = NoScene /\ new[f].regs = {}
    <3>1. CASE f = e BY <1>0, <1>2, <2>1, <3>1 DEF CompInv
    <3>2. CASE f # e
      <4>1. new[f] = comp[f] BY <1>2, <3>2
      <4> QED BY <2>1, <4>1 DEF CompInv
    <3> QED BY <3>1, <3>2
  <2>4. \A f, g \in SceneEntity : new[f].number = new[g].number => f = g \/ new[f].number = 0
    BY <2>1, <2>2 DEF CompInv
  <2>5. activations \in Nat BY <2>1 DEF CompInv
  <2> QED BY <1>2, <2>3, <2>4, <2>5 DEF CompInv
<1>7. AnsInv(comp', answers', sys'.next)
  <2>1. AnsInv(new, answers, sys.next) BY <1>3, EmptiedAnswers DEF IndInv
  <2> QED BY <1>0, <1>4, <2>1
<1>8. SceneInv(new, m_scenes', m_commands', asset, activations)
  <2>1. /\ SceneInv(comp, m_scenes, m_commands, asset, activations) /\ activations \in Nat
        /\ m_scenes \in [DOMAIN m_scenes -> SceneState] /\ DOMAIN m_scenes \subseteq 1 .. activations
        /\ m_commands \in Seq(Command)
    BY DEF IndInv, CompInv, SceneInv
  <2>2. \A c : CommandOK(c, comp, activations) => CommandOK(c, new, activations)
    <3> SUFFICES ASSUME NEW c, CommandOK(c, comp, activations) PROVE CommandOK(c, new, activations) OBVIOUS
    <3>1. \A f \in SceneEntity : new[f].number = comp[f].number /\ (f # e => new[f] = comp[f]) BY <1>2
    <3> QED BY <1>2, <3>1 DEF CommandOK
  <2>3. /\ DOMAIN m_scenes' = DOMAIN m_scenes /\ m_scenes' \in [DOMAIN m_scenes -> SceneState]
        /\ \A g \in DOMAIN m_scenes : g # h => m_scenes'[g] = m_scenes[g]
        /\ h \in DOMAIN m_scenes => m_scenes'[h].life = "Destroying"
        /\ m_commands' \in Seq(Command) /\ \A i \in 1 .. Len(m_commands') : CommandOK(m_commands'[i], comp, activations)
    <3>1. CASE h \in DOMAIN m_scenes /\ m_scenes[h].life # "Destroying"
      <4>1. /\ m_scenes' = [m_scenes EXCEPT ![h].life = "Destroying"]
            /\ m_commands' = Append(m_commands, [op |-> "destroy", scene |-> h])
        BY <1>0, <3>1 DEF DestroyScene
      <4>2. m_scenes[h] \in SceneState /\ m_scenes' = [m_scenes EXCEPT ![h] = [m_scenes[h] EXCEPT !.life = "Destroying"]]
        BY <2>1, <3>1, <4>1
      <4>3. [m_scenes[h] EXCEPT !.life = "Destroying"] \in SceneState
            /\ [m_scenes[h] EXCEPT !.life = "Destroying"].life = "Destroying"
        BY <4>2 DEF SceneState
      <4>4. h \in Nat BY <2>1, <3>1
      <4> DEFINE d == [op |-> "destroy", scene |-> h]
      <4>5. d \in Command /\ d.op = "destroy" BY <4>4 DEF Command
      <4>6. m_commands' = Append(m_commands, d) BY <4>1
      <4> HIDE DEF d, h
      <4>7. CommandOK(d, comp, activations) BY <4>5 DEF CommandOK
      <4>8. m_commands' \in Seq(Command) /\ Len(m_commands') = Len(m_commands) + 1 /\ Len(m_commands) \in Nat
        BY <2>1, <4>5, <4>6
      <4>9. \A i \in 1 .. Len(m_commands') : m_commands'[i] = d \/ (i \in 1 .. Len(m_commands) /\ m_commands'[i] = m_commands[i])
        BY <2>1, <4>5, <4>6, <4>8
      <4>10. \A i \in 1 .. Len(m_commands) : CommandOK(m_commands[i], comp, activations) BY <2>1 DEF SceneInv
      <4>11. \A i \in 1 .. Len(m_commands') : CommandOK(m_commands'[i], comp, activations)
        BY <4>7, <4>9, <4>10
      <4> QED BY <2>1, <3>1, <4>2, <4>3, <4>8, <4>11
    <3>2. CASE ~(h \in DOMAIN m_scenes /\ m_scenes[h].life # "Destroying")
      <4>1. UNCHANGED <<m_scenes, m_commands>> BY <1>0, <3>2 DEF DestroyScene
      <4> QED BY <2>1, <3>2, <4>1 DEF SceneInv
    <3> QED BY <3>1, <3>2
  <2>4. ASSUME NEW f \in SceneEntity
        PROVE  /\ new[f].scene # NoScene => Accepted(new, asset, f)
               /\ new[f].life = "Ready" =>
                    /\ new[f].scene # NoScene
                    /\ new[f].scene \in DOMAIN m_scenes' =>
                         m_scenes'[new[f].scene] = [life |-> "Alive", partitions |-> TokensOf(new[f].regs)]
    <3>1. CASE f = e BY <1>2, <3>1
    <3>2. CASE f # e
      <4>1. new[f] = comp[f] BY <1>2, <3>2
      <4>2. ASSUME comp[f].life = "Ready", comp[f].scene \in DOMAIN m_scenes PROVE comp[f].scene # h
        <5>1. comp[f].scene = comp[f].number /\ comp[f].number # 0 /\ comp[f].scene # NoScene
          BY <2>1, <4>2 DEF SceneInv, IndInv, CompInv
        <5>2. h # NoScene => h = comp[e].number BY DEF IndInv, CompInv
        <5> QED BY <3>2, <5>1, <5>2 DEF IndInv, CompInv
      <4>3. new[f].scene # NoScene => Accepted(new, asset, f) BY <2>1, <4>1 DEF SceneInv, Accepted
      <4>4. comp[f].life = "Ready" =>
              /\ comp[f].scene # NoScene
              /\ comp[f].scene \in DOMAIN m_scenes =>
                   m_scenes[comp[f].scene] = [life |-> "Alive", partitions |-> TokensOf(comp[f].regs)]
        BY <2>1 DEF SceneInv
      <4> QED BY <2>3, <4>1, <4>2, <4>3, <4>4
    <3> QED BY <3>1, <3>2
  <2>5. ASSUME NEW g \in DOMAIN m_scenes', m_scenes'[g].life # "Destroying"
        PROVE  \E f \in SceneEntity : new[f].scene = g /\ new[f].life \in {"Building", "Ready"}
    <3>1. g \in DOMAIN m_scenes /\ g # h /\ m_scenes[g].life # "Destroying" BY <2>3, <2>5
    <3>2. PICK f \in SceneEntity : comp[f].scene = g /\ comp[f].life \in {"Building", "Ready"}
      BY <2>1, <3>1 DEF SceneInv
    <3> QED BY <1>2, <3>1, <3>2
  <2>6. \A i \in 1 .. Len(m_commands') : CommandOK(m_commands'[i], new, activations) BY <2>2, <2>3
  <2> QED BY <2>1, <2>3, <2>4, <2>5, <2>6 DEF SceneInv
<1>9. PendingInv'
  <2>1. Entities' \subseteq Entities /\ e \notin Entities' BY <1>4, <1>t DEF Entities
  <2>2. TokensOf({}) = {} BY DEF TokensOf
  <2>3. \A r \in sys.pending : ~sys.closed => \A f \in SceneEntity : r.token \notin TokensOf(new[f].regs)
    BY <1>2, <2>2 DEF IndInv, PendingInv
  <2>4. \A f \in Entities : f \in SceneEntity BY <1>s DEF Entities
  <2>5. ~sys.closed => \A f \in Entities' : new[f].life = "Collecting"
    BY <1>2, <2>1, <2>4 DEF IndInv, PendingInv
  <2>6. /\ \A r \in sys.pending : r.token < sys.next
        /\ \A r, q \in sys.pending : r.token = q.token => r = q
        /\ ~sys.closed => \A r \in sys.pending : answers[r.token] = <<>>
    BY DEF IndInv, PendingInv
  <2> QED BY <1>0, <1>4, <2>3, <2>5, <2>6 DEF PendingInv
<1>10. NoneLost'
  <2> SUFFICES ASSUME NEW t \in Token, Collected(t)', answers'[t] = <<>>, t \notin dropped'
               PROVE  \E f \in SceneEntity : new[f].life = "Building" /\ t \in TokensOf(new[f].regs)
    BY <1>0 DEF NoneLost
  <2>1. Collected(t) /\ answers[t] = <<>> /\ t \notin dropped /\ t \notin TokensOf(comp[e].regs)
    BY <1>0, <1>4 DEF Collected
  <2>2. PICK f \in SceneEntity : comp[f].life = "Building" /\ t \in TokensOf(comp[f].regs)
    BY <2>1 DEF IndInv, NoneLost
  <2>3. f # e BY <2>1, <2>2
  <2> QED BY <1>2, <2>2, <2>3
<1> QED BY <1>0, <1>5, <1>6, <1>7, <1>8, <1>9, <1>10 DEF IndInv

(* Activate of a ScenePolytreeComponent: it gets a number nobody had.         *)
LEMMA ActivateSceneKeeps ==
  ASSUME IndInv, NEW e \in SceneEntity, NEW d \in BOOLEAN, ActivateScene(e, d) PROVE IndInv'
<1> USE BuildAssumption
<1> DEFINE accepted == sys.active /\ ~sys.closed /\ e \notin Entities
           life == IF accepted THEN "Collecting" ELSE "Failed"
           c == [life |-> life, regs |-> {}, scene |-> NoScene, number |-> activations + 1]
           new == [comp EXCEPT ![e] = c]
           entry == [entity |-> e, default |-> d]
<1>0. /\ comp[e].life \in {"Inactive", "Destroying"} /\ activations' = activations + 1 /\ comp' = new
      /\ sys' = IF accepted THEN [sys EXCEPT !.entities = @ \union {entry}] ELSE sys
      /\ UNCHANGED <<m_scenes, m_commands, asset, answers, dropped>>
  BY DEF ActivateScene, history
<1>1. comp \in [SceneEntity -> Component] /\ activations \in Nat BY DEF IndInv, CompInv
<1>2. life \in {"Collecting", "Failed"} /\ (accepted => life = "Collecting") OBVIOUS
<1>a. accepted => sys.active /\ ~sys.closed /\ e \notin Entities OBVIOUS
<1> HIDE DEF accepted, life
<1>3. c \in Component BY <1>1, <1>2 DEF Component, Lives
<1>4. /\ new \in [SceneEntity -> Component]
      /\ \A f \in SceneEntity : f # e => new[f] = comp[f]
      /\ new[e].life = life /\ new[e].regs = {} /\ new[e].scene = NoScene /\ new[e].number = activations + 1
  BY <1>1, <1>3
<1> HIDE DEF new, c
<1>5. Emptied(comp, new, e) BY <1>4 DEF Emptied
<1>s. sys \in [active : BOOLEAN, closed : BOOLEAN, entities : SUBSET [entity : SceneEntity, default : BOOLEAN],
               pending : SUBSET Reg, next : Nat]
  BY DEF IndInv, Types
<1>t. entry \in [entity : SceneEntity, default : BOOLEAN] /\ entry.entity = e OBVIOUS
<1> HIDE DEF entry
<1>6. /\ sys'.closed = sys.closed /\ sys'.pending = sys.pending /\ sys'.next = sys.next
      /\ sys'.entities = IF accepted THEN sys.entities \union {entry} ELSE sys.entities
      /\ sys' \in [active : BOOLEAN, closed : BOOLEAN, entities : SUBSET [entity : SceneEntity, default : BOOLEAN],
                   pending : SUBSET Reg, next : Nat]
  <2>1. CASE accepted BY <1>0, <1>s, <1>t, <2>1
  <2>2. CASE ~accepted BY <1>0, <1>s, <2>2
  <2> QED BY <2>1, <2>2
<1>7. Types' BY <1>0, <1>6 DEF IndInv, Types
<1>8. CompInv(new, activations + 1)
  <2>1. CompInv(comp, activations) BY DEF IndInv
  <2>2. \A f \in SceneEntity : comp[f].number \in Nat /\ comp[f].number <= activations
    BY <1>1, <2>1 DEF CompInv, Component
  <2>3. ASSUME NEW f \in SceneEntity
        PROVE  /\ new[f].number <= activations + 1
               /\ new[f].life # "Inactive" => new[f].number # 0
               /\ new[f].scene # NoScene => new[f].scene = new[f].number
               /\ new[f].life \in {"Inactive", "Collecting", "Destroying"} => new[f].scene = NoScene /\ new[f].regs = {}
    <3>1. CASE f = e BY <1>1, <1>4, <3>1
    <3>2. CASE f # e
      <4>1. new[f] = comp[f] BY <1>4, <3>2
      <4>2. comp[f].number <= activations + 1 BY <1>1, <2>2
      <4> QED BY <2>1, <4>1, <4>2 DEF CompInv
    <3> QED BY <3>1, <3>2
  <2>4. ASSUME NEW f \in SceneEntity, NEW g \in SceneEntity, new[f].number = new[g].number
        PROVE  f = g \/ new[f].number = 0
    <3>1. CASE f # e /\ g # e BY <1>4, <2>1, <2>4, <3>1 DEF CompInv
    <3>2. CASE f = e /\ g # e
      <4>1. comp[g].number = activations + 1 BY <1>4, <2>4, <3>2
      <4> QED BY <1>1, <2>2, <4>1
    <3>3. CASE f # e /\ g = e
      <4>1. comp[f].number = activations + 1 BY <1>4, <2>4, <3>3
      <4> QED BY <1>1, <2>2, <4>1
    <3> QED BY <3>1, <3>2, <3>3
  <2>5. activations + 1 \in Nat BY <1>1
  <2> QED BY <1>4, <2>3, <2>4, <2>5 DEF CompInv
<1>9. AnsInv(comp', answers', sys'.next)
  <2>1. AnsInv(new, answers, sys.next) BY <1>5, EmptiedAnswers DEF IndInv
  <2> QED BY <1>0, <1>6, <2>1
<1>10. SceneInv(new, m_scenes, m_commands, asset, activations + 1)
  <2>1. /\ SceneInv(comp, m_scenes, m_commands, asset, activations)
        /\ m_scenes \in [DOMAIN m_scenes -> SceneState] /\ DOMAIN m_scenes \subseteq 1 .. activations
        /\ m_commands \in Seq(Command)
    BY DEF IndInv, SceneInv
  <2>2. ASSUME NEW k, CommandOK(k, comp, activations), k.op = "create" PROVE CommandOK(k, new, activations + 1)
    <3>1. k.scene \in 1 .. activations BY <2>2 DEF CommandOK
    <3>2. k.scene \in 1 .. activations + 1 /\ k.scene # activations + 1 BY <1>1, <3>1
    <3>3. ASSUME NEW f \in SceneEntity, new[f].number = k.scene
          PROVE  new[f].life = "Destroying" \/ (new[f].scene = k.scene /\ k.partitions = TokensOf(new[f].regs))
      <4>1. f # e BY <1>4, <3>2, <3>3
      <4>2. new[f] = comp[f] BY <1>4, <4>1
      <4> QED BY <2>2, <3>3, <4>2 DEF CommandOK
    <3> QED BY <3>2, <3>3 DEF CommandOK
  <2>3. \A k : CommandOK(k, comp, activations) => CommandOK(k, new, activations + 1)
    BY <2>2 DEF CommandOK
  <2>4. \A i \in 1 .. Len(m_commands) : CommandOK(m_commands[i], new, activations + 1)
    BY <2>1, <2>3 DEF SceneInv
  <2>5. ASSUME NEW f \in SceneEntity
        PROVE  /\ new[f].scene # NoScene => Accepted(new, asset, f)
               /\ new[f].life = "Ready" =>
                    /\ new[f].scene # NoScene
                    /\ new[f].scene \in DOMAIN m_scenes =>
                         m_scenes[new[f].scene] = [life |-> "Alive", partitions |-> TokensOf(new[f].regs)]
    <3>1. CASE f = e BY <1>2, <1>4, <3>1
    <3>2. CASE f # e
      <4>1. new[f] = comp[f] BY <1>4, <3>2
      <4> QED BY <2>1, <4>1 DEF SceneInv, Accepted
    <3> QED BY <3>1, <3>2
  <2>6. ASSUME NEW h \in DOMAIN m_scenes, m_scenes[h].life # "Destroying"
        PROVE  \E f \in SceneEntity : new[f].scene = h /\ new[f].life \in {"Building", "Ready"}
    <3>1. PICK f \in SceneEntity : comp[f].scene = h /\ comp[f].life \in {"Building", "Ready"}
      BY <2>1, <2>6 DEF SceneInv
    <3>2. f # e BY <1>0, <3>1
    <3> QED BY <1>4, <3>1, <3>2
  <2>7. DOMAIN m_scenes \subseteq 1 .. activations + 1 BY <1>1, <2>1
  <2> QED BY <2>1, <2>4, <2>5, <2>6, <2>7 DEF SceneInv
<1>11. PendingInv'
  <2>1. Entities' = IF accepted THEN Entities \union {e} ELSE Entities
    BY <1>6, <1>t DEF Entities
  <2>2. TokensOf({}) = {} BY DEF TokensOf
  <2>3. \A r \in sys.pending : ~sys.closed => \A f \in SceneEntity : r.token \notin TokensOf(new[f].regs)
    BY <1>4, <2>2 DEF IndInv, PendingInv
  <2>4. \A f \in Entities : f \in SceneEntity BY <1>s DEF Entities
  <2>5. ASSUME ~sys.closed, NEW f \in Entities' PROVE new[f].life = "Collecting"
    <3>1. CASE f = e
      <4>1. accepted BY <1>0, <2>1, <2>5, <3>1 DEF IndInv, PendingInv
      <4> QED BY <1>2, <1>4, <3>1, <4>1
    <3>2. CASE f # e
      <4>1. f \in Entities BY <2>1, <3>2
      <4> QED BY <1>4, <2>4, <2>5, <3>2, <4>1 DEF IndInv, PendingInv
    <3> QED BY <3>1, <3>2
  <2>6. /\ \A r \in sys.pending : r.token < sys.next
        /\ \A r, q \in sys.pending : r.token = q.token => r = q
        /\ ~sys.closed => \A r \in sys.pending : answers[r.token] = <<>>
    BY DEF IndInv, PendingInv
  <2> QED BY <1>0, <1>6, <2>3, <2>5, <2>6 DEF PendingInv
<1>12. NoneLost'
  <2> SUFFICES ASSUME NEW t \in Token, Collected(t)', answers'[t] = <<>>, t \notin dropped'
               PROVE  \E f \in SceneEntity : new[f].life = "Building" /\ t \in TokensOf(new[f].regs)
    BY <1>0 DEF NoneLost
  <2>1. Collected(t) /\ answers[t] = <<>> /\ t \notin dropped BY <1>0, <1>6 DEF Collected
  <2>2. PICK f \in SceneEntity : comp[f].life = "Building" /\ t \in TokensOf(comp[f].regs)
    BY <2>1 DEF IndInv, NoneLost
  <2>3. f # e BY <1>0, <2>2
  <2> QED BY <1>4, <2>2, <2>3
<1> QED BY <1>0, <1>7, <1>8, <1>9, <1>10, <1>11, <1>12 DEF IndInv

--------------------------------------------------------------------------------
(* Steps of the system component that leave the scene components alone.     *)

(* RegisterPrefab: a new token, which nobody holds.                           *)
LEMMA RegisterKeeps ==
  ASSUME IndInv, NEW o \in Owner, NEW target \in SceneEntity \union {NoEntity}, RegisterPrefab(o, target)
  PROVE  IndInv'
<1> DEFINE r == [token |-> sys.next, owner |-> o, target |-> target]
<1>0. /\ ~sys.closed /\ sys.next \in Token
      /\ sys' = [sys EXCEPT !.next = @ + 1, !.pending = @ \union {r}]
      /\ UNCHANGED <<m_scenes, m_commands, comp, asset, answers, dropped, activations>>
  BY DEF RegisterPrefab, history, counters
<1>s. sys \in [active : BOOLEAN, closed : BOOLEAN, entities : SUBSET [entity : SceneEntity, default : BOOLEAN],
               pending : SUBSET Reg, next : Nat]
  BY DEF IndInv, Types
<1>r. r \in Reg /\ r.token = sys.next BY <1>0 DEF Reg
<1> HIDE DEF r
<1>1. /\ sys'.next = sys.next + 1 /\ sys'.pending = sys.pending \union {r} /\ sys'.closed = sys.closed
      /\ sys'.entities = sys.entities
      /\ sys' \in [active : BOOLEAN, closed : BOOLEAN, entities : SUBSET [entity : SceneEntity, default : BOOLEAN],
                   pending : SUBSET Reg, next : Nat]
  <2> DEFINE n == sys.next + 1
             P == sys.pending \union {r}
  <2>1. n \in Nat /\ P \in SUBSET Reg BY <1>s, <1>r
  <2>2. sys' = [sys EXCEPT !.next = n, !.pending = P] BY <1>0, <1>s
  <2> HIDE DEF n, P
  <2>3. /\ sys'.next = n /\ sys'.pending = P /\ sys'.closed = sys.closed /\ sys'.entities = sys.entities
        /\ sys' \in [active : BOOLEAN, closed : BOOLEAN, entities : SUBSET [entity : SceneEntity, default : BOOLEAN],
                     pending : SUBSET Reg, next : Nat]
    BY <1>s, <2>1, <2>2
  <2> QED BY <2>3 DEF n, P
<1>2. Types' BY <1>0, <1>1 DEF IndInv, Types
<1>n. sys.next \in Nat BY <1>s
<1>3. AnsInv(comp, answers, sys.next + 1)
  <2>1. AnsInv(comp, answers, sys.next) /\ comp \in [SceneEntity -> Component] BY DEF IndInv, CompInv
  <2>2. \A t \in Token : t \in Nat BY DEF Token
  <2>3. \A t \in Token : t >= sys.next + 1 => answers[t] = <<>> BY <1>n, <2>1, <2>2 DEF AnsInv
  <2>4. \A e \in SceneEntity : \A q \in comp[e].regs : q.token < sys.next /\ q.token \in Nat
    BY <2>1, <2>2 DEF AnsInv, Component, Reg
  <2>5. \A e \in SceneEntity : \A q \in comp[e].regs : q.token < sys.next + 1 BY <1>n, <2>4
  <2> QED BY <1>n, <2>1, <2>3, <2>5 DEF AnsInv
<1>4. PendingInv'
  <2>1. Entities' = Entities BY <1>1 DEF Entities
  <2>2. \A q \in sys.pending : q.token < sys.next /\ q.token \in Nat
    BY <1>s DEF IndInv, PendingInv, Reg, Token
  <2>3. \A q \in sys'.pending : q.token < sys'.next BY <1>1, <1>n, <1>r, <2>2
  <2>4. \A p, q \in sys'.pending : p.token = q.token => p = q
    <3>1. \A p, q \in sys.pending : p.token = q.token => p = q BY DEF IndInv, PendingInv
    <3>2. \A q \in sys.pending : q.token # r.token BY <1>n, <1>r, <2>2
    <3> QED BY <1>1, <3>1, <3>2
  <2>5. answers[r.token] = <<>> BY <1>0, <1>n, <1>r DEF IndInv, AnsInv
  <2>6. \A e \in SceneEntity : r.token \notin TokensOf(comp[e].regs)
    <3> SUFFICES ASSUME NEW e \in SceneEntity, NEW q \in comp[e].regs, q.token = sys.next PROVE FALSE
      BY <1>r DEF TokensOf
    <3>1. q.token < sys.next BY DEF IndInv, AnsInv
    <3> QED BY <1>n, <3>1
  <2> QED BY <1>0, <1>1, <2>1, <2>3, <2>4, <2>5, <2>6 DEF IndInv, PendingInv
<1>5. NoneLost' BY <1>0, <1>1 DEF NoneLost, Collected
<1> QED BY <1>0, <1>1, <1>2, <1>3, <1>4, <1>5 DEF IndInv

(* The collection shrinks, is forgotten or only read.                       *)
LEMMA FewerKeeps ==
  ASSUME IndInv, sys' \in [active : BOOLEAN, closed : BOOLEAN, entities : SUBSET [entity : SceneEntity, default : BOOLEAN],
                           pending : SUBSET Reg, next : Nat],
         sys'.next = sys.next, sys'.pending \subseteq sys.pending, sys'.entities \subseteq sys.entities,
         sys'.closed = sys.closed \/ (~sys'.closed /\ sys'.pending = {} /\ sys'.entities = {}),
         UNCHANGED <<comp, answers, asset, activations>>, dropped \subseteq dropped',
         SceneInv(comp, m_scenes', m_commands', asset, activations)
  PROVE  IndInv'
<1>1. Types' BY DEF IndInv, Types
<1>2. CompInv(comp', activations') /\ AnsInv(comp', answers', sys'.next) BY DEF IndInv
<1>3. Entities' \subseteq Entities BY DEF Entities
<1>4. sys'.entities = {} => Entities' = {} BY DEF Entities
<1>5. PendingInv' BY <1>3, <1>4 DEF IndInv, PendingInv
<1>6. NoneLost'
  <2> SUFFICES ASSUME NEW t \in Token, Collected(t)', answers[t] = <<>>, t \notin dropped
               PROVE  \E e \in SceneEntity : comp[e].life = "Building" /\ t \in TokensOf(comp[e].regs)
    BY DEF NoneLost
  <2>1. Collected(t) BY DEF Collected
  <2> QED BY <2>1 DEF IndInv, NoneLost
<1> QED BY <1>1, <1>2, <1>5, <1>6 DEF IndInv

(* UnregisterPrefab.                                                          *)
LEMMA UnregisterKeeps == ASSUME IndInv, NEW o \in Owner, UnregisterPrefab(o) PROVE IndInv'
<1> DEFINE P == {r \in sys.pending : r.token # registered[o]}
<1>0. sys' = [sys EXCEPT !.pending = P] /\ UNCHANGED <<m_scenes, m_commands, comp, asset, answers, dropped, activations>>
  BY DEF UnregisterPrefab, history, counters
<1>1. P \subseteq sys.pending OBVIOUS
<1> HIDE DEF P
<1>2. /\ sys' \in [active : BOOLEAN, closed : BOOLEAN, entities : SUBSET [entity : SceneEntity, default : BOOLEAN],
                   pending : SUBSET Reg, next : Nat]
      /\ sys'.next = sys.next /\ sys'.pending = P /\ sys'.entities = sys.entities /\ sys'.closed = sys.closed
  BY <1>0, <1>1 DEF IndInv, Types
<1>3. SceneInv(comp, m_scenes', m_commands', asset, activations) BY <1>0 DEF IndInv
<1> QED BY <1>0, <1>1, <1>2, <1>3, FewerKeeps

(* OnGameEntitiesReset.                                                       *)
LEMMA ResetKeeps == ASSUME IndInv, OnGameEntitiesReset PROVE IndInv'
<1>0. sys' = [sys EXCEPT !.closed = FALSE, !.entities = {}, !.pending = {}]
      /\ UNCHANGED <<m_scenes, m_commands, comp, asset, answers, dropped, activations>>
  BY DEF OnGameEntitiesReset, history
<1>2. /\ sys' \in [active : BOOLEAN, closed : BOOLEAN, entities : SUBSET [entity : SceneEntity, default : BOOLEAN],
                   pending : SUBSET Reg, next : Nat]
      /\ sys'.next = sys.next /\ sys'.pending = {} /\ sys'.entities = {} /\ sys'.closed = FALSE
  BY <1>0 DEF IndInv, Types
<1>3. SceneInv(comp, m_scenes', m_commands', asset, activations) BY <1>0 DEF IndInv
<1> QED BY <1>0, <1>2, <1>3, FewerKeeps

(* Activate of the system component.                                          *)
LEMMA ActivateKeeps == ASSUME IndInv, Activate PROVE IndInv'
<1>0. sys' = [sys EXCEPT !.active = TRUE]
      /\ UNCHANGED <<m_scenes, m_commands, comp, asset, answers, dropped, activations>>
  BY DEF Activate, history, counters
<1>2. /\ sys' \in [active : BOOLEAN, closed : BOOLEAN, entities : SUBSET [entity : SceneEntity, default : BOOLEAN],
                   pending : SUBSET Reg, next : Nat]
      /\ sys'.next = sys.next /\ sys'.pending = sys.pending /\ sys'.entities = sys.entities /\ sys'.closed = sys.closed
  BY <1>0 DEF IndInv, Types
<1>3. SceneInv(comp, m_scenes', m_commands', asset, activations) BY <1>0 DEF IndInv
<1> QED BY <1>0, <1>2, <1>3, FewerKeeps

(* Deactivate of the system component: scenes and queue are gone at once.     *)
LEMMA DeactivateKeeps == ASSUME IndInv, Deactivate PROVE IndInv'
<1>0. /\ sys' = [NoSystem EXCEPT !.next = sys.next] /\ m_scenes' = <<>> /\ m_commands' = <<>>
      /\ dropped \subseteq dropped' /\ UNCHANGED <<comp, asset, answers, activations>>
  BY DEF Deactivate, counters
<1>1. sys.next \in Nat BY DEF IndInv, Types
<1>2. /\ sys' \in [active : BOOLEAN, closed : BOOLEAN, entities : SUBSET [entity : SceneEntity, default : BOOLEAN],
                   pending : SUBSET Reg, next : Nat]
      /\ sys'.next = sys.next /\ sys'.pending = {} /\ sys'.entities = {} /\ sys'.closed = FALSE
  BY <1>0, <1>1 DEF NoSystem
<1>3. SceneInv(comp, m_scenes', m_commands', asset, activations)
  <2>1. m_scenes' \in [DOMAIN m_scenes' -> SceneState] /\ DOMAIN m_scenes' = {}
    BY <1>0
  <2>2. m_commands' \in Seq(Command) /\ Len(m_commands') = 0 BY <1>0
  <2>3. SceneInv(comp, m_scenes, m_commands, asset, activations) BY DEF IndInv
  <2>4. DOMAIN m_scenes' \subseteq 1 .. activations /\ \A h : h \notin DOMAIN m_scenes' BY <2>1
  <2>5. \A i \in 1 .. Len(m_commands') : CommandOK(m_commands'[i], comp, activations) BY <2>2
  <2>6. \A e \in SceneEntity : /\ comp[e].scene # NoScene => Accepted(comp, asset, e)
                               /\ comp[e].life = "Ready" => comp[e].scene # NoScene
    BY <2>3 DEF SceneInv
  <2> QED BY <2>1, <2>2, <2>4, <2>5, <2>6 DEF SceneInv
<1> QED BY <1>0, <1>2, <1>3, FewerKeeps

(* Every step keeps the invariant.                                            *)
LEMMA NextKeeps == IndInv /\ [Next]_vars => IndInv'
<1> SUFFICES ASSUME IndInv, [Next]_vars PROVE IndInv' OBVIOUS
<1>1. CASE UNCHANGED vars
  <2>1. Entities' = Entities BY <1>1 DEF vars, Entities
  <2>2. PendingInv' BY <1>1, <2>1 DEF vars, IndInv, PendingInv
  <2>3. NoneLost' BY <1>1 DEF vars, IndInv, NoneLost, Collected
  <2>4. Types' BY <1>1 DEF vars, IndInv, Types
  <2>5. CompInv(comp', activations') /\ AnsInv(comp', answers', sys'.next)
        /\ SceneInv(comp', m_scenes', m_commands', asset', activations')
    BY <1>1 DEF vars, IndInv
  <2> QED BY <2>2, <2>3, <2>4, <2>5 DEF IndInv
<1>2. ASSUME NEW e \in SceneEntity, DeactivateScene(e) PROVE IndInv' BY <1>2, DeactivateSceneKeeps
<1>3. ASSUME NEW e \in SceneEntity, NEW d \in BOOLEAN, ActivateScene(e, d) PROVE IndInv'
  BY <1>3, ActivateSceneKeeps
<1>4. ASSUME NEW o \in Owner, UnregisterPrefab(o) PROVE IndInv' BY <1>4, UnregisterKeeps
<1>5. ASSUME NEW o \in Owner, NEW t \in SceneEntity \union {NoEntity}, RegisterPrefab(o, t) PROVE IndInv'
  BY <1>5, RegisterKeeps
<1>6. ASSUME NEW p \in Prefab, OnAssetReady(p) \/ OnAssetError(p) PROVE IndInv'
  BY <1>6, AssetReadyKeeps, AssetErrorKeeps
<1> QED BY <1>1, <1>2, <1>3, <1>4, <1>5, <1>6, CollectionKeeps, ResetKeeps, ProcessKeeps, DeactivateKeeps,
           ActivateKeeps DEF Next, AssetEnds

--------------------------------------------------------------------------------
(* That a ready component has its scene needs an invariant of its own, kept *)
(* by the steps that keep IndInv: what a stop took bears numbers no scene   *)
(* has again, because no build that still lacks its scene has one of them;  *)
(* and what is queued for destruction belongs to components that went.      *)
Condemned(c, C, act) ==
  c.op = "destroy" =>
    /\ c.scene \in 1 .. act
    /\ \A e \in SceneEntity : C[e].number = c.scene => C[e].life = "Destroying"

KeptInv ==
  /\ ended \subseteq 1 .. activations
  /\ \A h \in ended : h \notin DOMAIN m_scenes
  /\ \A e \in SceneEntity :
       /\ comp[e].life = "Ready" /\ comp[e].scene \notin ended => comp[e].scene \in DOMAIN m_scenes
       /\ comp[e].life \in {"Collecting", "Building"} /\ comp[e].scene = NoScene => comp[e].number \notin ended
  /\ \A i \in 1 .. Len(m_commands) : Condemned(m_commands[i], comp, activations)

(* Components that begin to build, go on or fail: those without a scene.    *)
Going(new) ==
  \A e \in SceneEntity :
    \/ new[e] = comp[e]
    \/ /\ comp[e].life \in {"Collecting", "Building"} /\ comp[e].scene = NoScene
       /\ new[e].number = comp[e].number /\ new[e].life \in {"Building", "Failed"}
       /\ new[e].scene \in {NoScene, comp[e].number}

(* The scenes they ask for are new, and none is condemned.                    *)
LEMMA GoingKept ==
  ASSUME IndInv, KeptInv, NEW new, new \in [SceneEntity -> Component], Going(new), CreateScenes(new),
         comp' = new, UNCHANGED <<ended, activations>>
  PROVE  KeptInv'
<1> DEFINE K == Creating(new)
           n == Cardinality(K)
<1>1. n \in Nat
  <2>1. IsFiniteSet(K) BY FS_Subset, BuildAssumption DEF Creating
  <2> QED BY <2>1, FS_CardinalityType
<1>2. PICK order \in Bijection(1 .. n, K) :
        /\ m_commands' = m_commands \o
            [i \in 1 .. n |-> [op |-> "create", scene |-> new[order[i]].scene,
                               partitions |-> TokensOf(new[order[i]].regs)]]
        /\ m_scenes' = [h \in DOMAIN m_scenes \union {new[e].scene : e \in K} |->
                           IF h \in {new[e].scene : e \in K} THEN [life |-> "Pending", partitions |-> {}]
                           ELSE m_scenes[h]]
  BY DEF CreateScenes
<1>3. order \in [1 .. n -> K] BY <1>2 DEF Bijection, Injection
<1> DEFINE N == {new[e].scene : e \in K}
           R == [i \in 1 .. n |-> [op |-> "create", scene |-> new[order[i]].scene,
                                   partitions |-> TokensOf(new[order[i]].regs)]]
<1>4. DOMAIN m_scenes' = DOMAIN m_scenes \union N /\ m_commands' = m_commands \o R BY <1>2
<1>5. \A e \in K : e \in SceneEntity /\ new[e].scene # NoScene /\ comp[e].scene = NoScene BY DEF Creating
<1>6. \A h \in N : \E e \in K : h = new[e].scene OBVIOUS
<1> HIDE DEF K, n, N
<1>7. \A e \in K : /\ [op |-> "create", scene |-> new[e].scene, partitions |-> TokensOf(new[e].regs)] \in Command
                   /\ new[e].scene \notin ended
  <2> SUFFICES ASSUME NEW e \in K
               PROVE  /\ [op |-> "create", scene |-> new[e].scene, partitions |-> TokensOf(new[e].regs)] \in Command
                      /\ new[e].scene \notin ended
    OBVIOUS
  <2>1. e \in SceneEntity /\ new[e] \in Component /\ new[e].scene # NoScene /\ comp[e].scene = NoScene BY <1>5
  <2>2. new[e].scene \in Nat /\ TokensOf(new[e].regs) \subseteq Token BY <2>1 DEF Component, Reg, TokensOf
  <2>3. comp[e].life \in {"Collecting", "Building"} /\ new[e].scene = comp[e].number BY <2>1 DEF Going
  <2> QED BY <2>1, <2>2, <2>3 DEF Command, KeptInv
<1>8. \A h \in ended : h \notin DOMAIN m_scenes'
  BY <1>4, <1>6, <1>7 DEF KeptInv
<1>9. R \in Seq(Command) /\ Len(R) = n /\ \A i \in 1 .. Len(R) : R[i].op = "create"
  <2>1. \A i \in 1 .. n : order[i] \in K BY <1>3
  <2>2. R \in [1 .. n -> Command] /\ \A i \in 1 .. n : R[i].op = "create" BY <1>7, <2>1
  <2> HIDE DEF R
  <2> QED BY <1>1, <2>2
<1> HIDE DEF R
<1> DEFINE Q2 == m_commands \o R
<1>10. \A i \in 1 .. Len(Q2) : Condemned(Q2[i], new, activations)
  <2>1. m_commands \in Seq(Command) BY DEF IndInv, SceneInv
  <2>2. \A i \in 1 .. Len(Q2) : \/ \E j \in 1 .. Len(m_commands) : Q2[i] = m_commands[j]
                               \/ \E j \in 1 .. Len(R) : Q2[i] = R[j]
    BY <1>9, <2>1, ConcatElements
  <2> HIDE DEF Q2
  <2>3. \A e \in SceneEntity : /\ new[e].number = comp[e].number
                               /\ comp[e].life = "Destroying" => new[e].life = "Destroying"
    BY DEF Going
  <2>4. \A c : Condemned(c, comp, activations) => Condemned(c, new, activations) BY <2>3 DEF Condemned
  <2>5. \A j \in 1 .. Len(R) : Condemned(R[j], new, activations) BY <1>9 DEF Condemned
  <2> QED BY <2>2, <2>4, <2>5 DEF KeptInv
<1>11. ASSUME NEW e \in SceneEntity
       PROVE  /\ new[e].life = "Ready" /\ new[e].scene \notin ended => new[e].scene \in DOMAIN m_scenes'
              /\ new[e].life \in {"Collecting", "Building"} /\ new[e].scene = NoScene => new[e].number \notin ended
  BY <1>4 DEF KeptInv, Going
<1>12. m_commands' = Q2 /\ ended \subseteq 1 .. activations BY <1>4 DEF KeptInv
<1> HIDE DEF Q2
<1> QED BY <1>8, <1>10, <1>11, <1>12 DEF KeptInv

(* A load that ends, for the components that wait for it.                     *)
LEMMA AssetKept ==
  ASSUME IndInv, KeptInv, NEW p \in Prefab, OnAssetReady(p) \/ OnAssetError(p) PROVE KeptInv'
<1>1. comp \in [SceneEntity -> Component] BY DEF IndInv, CompInv
<1>2. \A e \in SceneEntity : Listening(e, p) => comp[e].life = "Building" /\ comp[e].scene = NoScene
  BY DEF Listening
<1>3. CASE OnAssetReady(p)
  <2> DEFINE new == [e \in SceneEntity |-> IF Listening(e, p) THEN TryBuild(e, comp[e], asset') ELSE comp[e]]
  <2>1. /\ ComponentsStep(new) /\ UNCHANGED <<ended, activations>>
        /\ \A e \in SceneEntity : new[e] = IF Listening(e, p) THEN TryBuild(e, comp[e], asset') ELSE comp[e]
    BY <1>3 DEF OnAssetReady, history, counters
  <2>2. \A e \in SceneEntity : Listening(e, p) =>
           /\ TryBuild(e, comp[e], asset') \in Component
           /\ TryBuild(e, comp[e], asset') = comp[e] \/ Built(comp[e], TryBuild(e, comp[e], asset'))
    BY <1>1, <1>2, TryBuilds
  <2>3. new \in [SceneEntity -> Component] BY <1>1, <2>2
  <2> HIDE DEF new
  <2>4. Going(new) BY <2>1, <2>2 DEF Going, Built
  <2> QED BY <2>1, <2>3, <2>4, GoingKept DEF ComponentsStep
<1>4. CASE OnAssetError(p)
  <2> DEFINE new == [e \in SceneEntity |-> IF Listening(e, p) THEN FailBuild(comp[e]) ELSE comp[e]]
  <2>1. /\ ComponentsStep(new) /\ UNCHANGED <<ended, activations>>
        /\ \A e \in SceneEntity : new[e] = IF Listening(e, p) THEN FailBuild(comp[e]) ELSE comp[e]
    BY <1>4 DEF OnAssetError, history, counters
  <2>2. \A e \in SceneEntity : Listening(e, p) =>
           FailBuild(comp[e]) \in Component /\ Built(comp[e], FailBuild(comp[e]))
    BY <1>1, <1>2, FailBuilds
  <2>3. new \in [SceneEntity -> Component] BY <1>1, <2>2
  <2> HIDE DEF new
  <2>4. Going(new) BY <2>1, <2>2 DEF Going, Built
  <2> QED BY <2>1, <2>3, <2>4, GoingKept DEF ComponentsStep
<1> QED BY <1>3, <1>4

(* OnRootSpawnableReady, for those who were collecting.                       *)
LEMMA CollectionKept == ASSUME IndInv, KeptInv, OnRootSpawnableReady PROVE KeptInv'
<1> DEFINE new == [e \in SceneEntity |-> IF e \in Entities THEN BeginBuild(e, comp[e], RegsOf(e)) ELSE comp[e]]
<1>1. ~sys.closed /\ comp' = new /\ CreateScenes(new) /\ UNCHANGED <<ended, activations>>
  BY DEF OnRootSpawnableReady, CollectionEnds, RegsOf, history, counters
<1>2. new = [e \in SceneEntity |-> IF e \in Entities THEN BeginBuild(e, comp[e], RegsOf(e)) ELSE comp[e]] OBVIOUS
<1> HIDE DEF new
<1>3. StaysReady(asset, asset) BY DEF StaysReady
<1>4. /\ BuildStep(Beginning, new, asset)
      /\ \A e \in Entities : new[e].life \in {"Building", "Failed"}
      /\ \A e \in SceneEntity : e \notin Entities => new[e] = comp[e]
  BY <1>1, <1>2, <1>3, BeginBuilds
<1>5. \A e \in Entities : /\ e \in SceneEntity /\ comp[e].life = "Collecting" /\ comp[e].scene = NoScene
                          /\ Beginning[e].scene = NoScene /\ Beginning[e].number = comp[e].number
  BY <1>1, BeginningFacts
<1>6. ASSUME NEW e \in Entities
      PROVE  /\ comp[e].life = "Collecting" /\ comp[e].scene = NoScene
             /\ new[e].number = comp[e].number /\ new[e].life \in {"Building", "Failed"}
             /\ new[e].scene \in {NoScene, comp[e].number}
  BY <1>4, <1>5 DEF BuildStep, Built
<1>7. Going(new) BY <1>4, <1>6 DEF Going
<1>8. new \in [SceneEntity -> Component] BY <1>4 DEF BuildStep
<1> QED BY <1>1, <1>7, <1>8, GoingKept

(* The head of the queue: a creation fails for a scene that waits, and a    *)
(* destruction takes one whose component went.                              *)
LEMMA ProcessKept == ASSUME IndInv, KeptInv, Process PROVE KeptInv'
<1> USE BuildAssumption
<1> DEFINE c == Head(m_commands)
           Q == Tail(m_commands)
<1>1. /\ m_commands \in Seq(Command) /\ m_commands # <<>>
      /\ \A i \in 1 .. Len(m_commands) : CommandOK(m_commands[i], comp, activations)
  BY DEF IndInv, SceneInv, Process
<1>2. c \in Command /\ CommandOK(c, comp, activations) BY <1>1, TailKeeps
<1>3. /\ m_commands' = Q /\ UNCHANGED <<ended, activations>>
      /\ \/ c.op = "create" /\ ProcessCreate(c)
         \/ c.op = "destroy" /\ ProcessDestroy(c)
  BY DEF Process, history, counters
<1>4. Condemned(c, comp, activations) /\ \A i \in 1 .. Len(Q) : Condemned(Q[i], comp, activations)
  <2>1. Len(m_commands) \in Nat /\ Len(m_commands) >= 1 /\ Len(Q) = Len(m_commands) - 1 BY <1>1
  <2>2. \A i \in 1 .. Len(Q) : Q[i] = m_commands[i + 1] /\ i + 1 \in 1 .. Len(m_commands) BY <1>1, <2>1
  <2>3. c = m_commands[1] /\ 1 \in 1 .. Len(m_commands) BY <1>1, <2>1
  <2> QED BY <2>2, <2>3 DEF KeptInv
<1> HIDE DEF c, Q
<1>s. /\ SceneInv(comp, m_scenes, m_commands, asset, activations) /\ CompInv(comp, activations)
      /\ m_scenes \in [DOMAIN m_scenes -> SceneState]
  BY DEF IndInv, SceneInv
<1>5. CASE c.op = "create" /\ ProcessCreate(c)
  <2> DEFINE X == Builder(c.scene)
  <2>x. X \subseteq SceneEntity /\ \A e \in X : comp[e].life = "Building" /\ comp[e].scene = c.scene
    BY DEF Builder
  <2>1. CASE /\ c.scene \in DOMAIN m_scenes /\ m_scenes[c.scene].life = "Pending"
             /\ SceneReady(c)
    <3>1. Ended(comp, comp', X, "Ready") BY <1>2, <1>5, <2>1, BuilderEnds DEF SceneReady
    <3>2. DOMAIN m_scenes' = DOMAIN m_scenes BY <1>s, <2>1 DEF SceneReady
    <3> HIDE DEF X
    <3>3. \A i \in 1 .. Len(Q) : Condemned(Q[i], comp', activations) BY <1>3, <1>4, <3>1 DEF Condemned, Ended
    <3>4. ASSUME NEW e \in SceneEntity
          PROVE  /\ comp'[e].life = "Ready" /\ comp'[e].scene \notin ended => comp'[e].scene \in DOMAIN m_scenes'
                 /\ comp'[e].life \in {"Collecting", "Building"} /\ comp'[e].scene = NoScene => comp'[e].number \notin ended
      BY <2>1, <2>x, <3>1, <3>2 DEF Ended, KeptInv
    <3> QED BY <1>3, <3>2, <3>3, <3>4 DEF KeptInv
  <2>2. CASE /\ c.scene \in DOMAIN m_scenes /\ m_scenes[c.scene].life = "Pending"
             /\ SceneFailed(c)
    <3>1. Ended(comp, comp', X, "Failed") BY <1>2, <1>5, <2>2, BuilderEnds DEF SceneFailed, FailBuild
    <3>2. DOMAIN m_scenes' = DOMAIN m_scenes \ {c.scene} BY <2>2 DEF SceneFailed
    <3> HIDE DEF X
    <3>3. \A i \in 1 .. Len(Q) : Condemned(Q[i], comp', activations) BY <1>3, <1>4, <3>1 DEF Condemned, Ended
    <3>4. ASSUME NEW e \in SceneEntity
          PROVE  /\ comp'[e].life = "Ready" /\ comp'[e].scene \notin ended => comp'[e].scene \in DOMAIN m_scenes'
                 /\ comp'[e].life \in {"Collecting", "Building"} /\ comp'[e].scene = NoScene => comp'[e].number \notin ended
      <4>1. CASE e \in X BY <2>x, <3>1, <4>1 DEF Ended, KeptInv
      <4>2. CASE e \notin X
        <5>1. comp'[e] = comp[e] BY <3>1, <4>2 DEF Ended
        <5>2. ASSUME comp[e].life = "Ready", comp[e].scene \in DOMAIN m_scenes
              PROVE  m_scenes[comp[e].scene].life = "Alive"
          <6> DEFINE whole == [life |-> "Alive", partitions |-> TokensOf(comp[e].regs)]
          <6>1. m_scenes[comp[e].scene] = whole BY <1>s, <5>2 DEF SceneInv
          <6>2. whole.life = "Alive" OBVIOUS
          <6> HIDE DEF whole
          <6> QED BY <6>1, <6>2
        <5>3. comp[e].life = "Ready" => comp[e].scene # c.scene BY <2>2, <5>2
        <5> QED BY <3>2, <5>1, <5>3 DEF KeptInv
      <4> QED BY <4>1, <4>2
    <3> QED BY <1>3, <3>2, <3>3, <3>4 DEF KeptInv
  <2>3. CASE ~(c.scene \in DOMAIN m_scenes /\ m_scenes[c.scene].life = "Pending")
    <3>1. UNCHANGED <<m_scenes, comp>> BY <1>5, <2>3 DEF ProcessCreate
    <3>2. \A i \in 1 .. Len(Q) : Condemned(Q[i], comp', activations) BY <1>3, <1>4, <3>1 DEF Condemned
    <3> QED BY <1>3, <3>1, <3>2 DEF KeptInv
  <2> QED BY <1>5, <2>1, <2>2, <2>3 DEF ProcessCreate
<1>6. CASE c.op = "destroy" /\ ProcessDestroy(c)
  <2>1. UNCHANGED comp /\ DOMAIN m_scenes' = DOMAIN m_scenes \ {c.scene} BY <1>6 DEF ProcessDestroy
  <2>2. \A i \in 1 .. Len(Q) : Condemned(Q[i], comp', activations) BY <1>3, <1>4, <2>1 DEF Condemned
  <2>3. ASSUME NEW e \in SceneEntity, comp[e].life = "Ready" PROVE comp[e].scene # c.scene
    <3>1. comp[e].scene # NoScene BY <1>s, <2>3 DEF SceneInv
    <3>2. comp[e].scene = comp[e].number BY <1>s, <3>1 DEF CompInv
    <3>3. comp[e].number # c.scene BY <1>4, <1>6, <2>3 DEF Condemned
    <3> QED BY <3>2, <3>3
  <2> QED BY <1>3, <2>1, <2>2, <2>3 DEF KeptInv
<1> QED BY <1>3, <1>5, <1>6

(* A component that goes condemns its own scene alone.                        *)
LEMMA DeactivateSceneKept == ASSUME IndInv, KeptInv, NEW e \in SceneEntity, DeactivateScene(e) PROVE KeptInv'
<1> USE BuildAssumption
<1> DEFINE h == comp[e].scene
           new == [comp EXCEPT ![e].life = "Destroying", ![e].regs = {}, ![e].scene = NoScene]
<1>0. comp' = new /\ DestroyScene(h) /\ UNCHANGED <<ended, activations>> BY DEF DeactivateScene, counters
<1>1. CompInv(comp, activations) /\ comp \in [SceneEntity -> Component] BY DEF IndInv, CompInv
<1>2. /\ \A f \in SceneEntity : f # e => new[f] = comp[f]
      /\ new[e].life = "Destroying" /\ new[e].scene = NoScene /\ new[e].number = comp[e].number
  <2>1. comp[e] \in Component BY <1>1
  <2>2. new = [comp EXCEPT ![e] = [comp[e] EXCEPT !.life = "Destroying", !.regs = {}, !.scene = NoScene]]
    BY <1>1, <2>1
  <2> QED BY <1>1, <2>1, <2>2 DEF Component
<1> HIDE DEF new
<1>3. \A c : Condemned(c, comp, activations) => Condemned(c, new, activations) BY <1>2 DEF Condemned
<1>4. /\ DOMAIN m_scenes' = DOMAIN m_scenes
      /\ \A i \in 1 .. Len(m_commands') : Condemned(m_commands'[i], new, activations)
  <2>s. /\ m_scenes \in [DOMAIN m_scenes -> SceneState] /\ DOMAIN m_scenes \subseteq 1 .. activations
        /\ m_commands \in Seq(Command) /\ activations \in Nat
    BY DEF IndInv, SceneInv, CompInv
  <2>1. CASE h \in DOMAIN m_scenes /\ m_scenes[h].life # "Destroying"
    <3> DEFINE d == [op |-> "destroy", scene |-> h]
    <3>1. m_scenes' = [m_scenes EXCEPT ![h].life = "Destroying"] /\ m_commands' = Append(m_commands, d)
      BY <1>0, <2>1 DEF DestroyScene
    <3>2. h \in 1 .. activations /\ h # NoScene BY <2>1, <2>s
    <3>3. h = comp[e].number /\ comp[e].number # 0 BY <1>1, <3>2 DEF CompInv
    <3>4. \A f \in SceneEntity : comp[f].number = h => f = e BY <1>1, <3>3 DEF CompInv
    <3>5. d \in Command /\ d.scene = h BY <2>s, <3>2 DEF Command
    <3>6. DOMAIN m_scenes' = DOMAIN m_scenes BY <3>1
    <3> HIDE DEF d, h
    <3>7. Condemned(d, new, activations) BY <1>2, <3>2, <3>4, <3>5 DEF Condemned
    <3>8. Len(m_commands') = Len(m_commands) + 1 /\ Len(m_commands) \in Nat BY <2>s, <3>1, <3>5
    <3>9. \A i \in 1 .. Len(m_commands') : m_commands'[i] = d \/ (i \in 1 .. Len(m_commands) /\ m_commands'[i] = m_commands[i])
      BY <2>s, <3>1, <3>5, <3>8
    <3>10. \A i \in 1 .. Len(m_commands') : Condemned(m_commands'[i], new, activations)
      BY <1>3, <3>7, <3>9 DEF KeptInv
    <3> QED BY <3>6, <3>10
  <2>2. CASE ~(h \in DOMAIN m_scenes /\ m_scenes[h].life # "Destroying")
    <3>1. UNCHANGED <<m_scenes, m_commands>> BY <1>0, <2>2 DEF DestroyScene
    <3> QED BY <1>3, <3>1 DEF KeptInv
  <2> QED BY <2>1, <2>2
<1>5. ASSUME NEW f \in SceneEntity
      PROVE  /\ new[f].life = "Ready" /\ new[f].scene \notin ended => new[f].scene \in DOMAIN m_scenes'
             /\ new[f].life \in {"Collecting", "Building"} /\ new[f].scene = NoScene => new[f].number \notin ended
  BY <1>2, <1>4 DEF KeptInv
<1> QED BY <1>0, <1>4, <1>5 DEF KeptInv

(* A component that comes has a number no stop and no command knows.          *)
LEMMA ActivateSceneKept ==
  ASSUME IndInv, KeptInv, NEW e \in SceneEntity, NEW d \in BOOLEAN, ActivateScene(e, d) PROVE KeptInv'
<1> USE BuildAssumption
<1> DEFINE accepted == sys.active /\ ~sys.closed /\ e \notin Entities
           c == [life |-> IF accepted THEN "Collecting" ELSE "Failed", regs |-> {},
                 scene |-> NoScene, number |-> activations + 1]
           new == [comp EXCEPT ![e] = c]
<1>0. comp' = new /\ activations' = activations + 1 /\ UNCHANGED <<m_scenes, m_commands, ended>>
  BY DEF ActivateScene, history
<1>1. comp \in [SceneEntity -> Component] /\ activations \in Nat BY DEF IndInv, CompInv
<1>2. /\ \A f \in SceneEntity : f # e => new[f] = comp[f]
      /\ new[e].life # "Ready" /\ new[e].number = activations + 1
  BY <1>1
<1> HIDE DEF new
<1>3. ended \subseteq 1 .. activations' /\ activations + 1 \notin ended
  BY <1>0, <1>1 DEF KeptInv
<1>4. ASSUME NEW k, Condemned(k, comp, activations), k.op = "destroy" PROVE Condemned(k, new, activations + 1)
  <2>1. k.scene \in 1 .. activations BY <1>4 DEF Condemned
  <2>2. k.scene \in 1 .. activations + 1 /\ k.scene # activations + 1 BY <1>1, <2>1
  <2> QED BY <1>2, <1>4, <2>2 DEF Condemned
<1>5. \A i \in 1 .. Len(m_commands) : Condemned(m_commands[i], new, activations + 1)
  <2>1. \A k : Condemned(k, comp, activations) => Condemned(k, new, activations + 1) BY <1>4 DEF Condemned
  <2> QED BY <2>1 DEF KeptInv
<1>6. ASSUME NEW f \in SceneEntity
      PROVE  /\ new[f].life = "Ready" /\ new[f].scene \notin ended => new[f].scene \in DOMAIN m_scenes
             /\ new[f].life \in {"Collecting", "Building"} /\ new[f].scene = NoScene => new[f].number \notin ended
  BY <1>2, <1>3 DEF KeptInv
<1> QED BY <1>0, <1>3, <1>5, <1>6 DEF KeptInv

(* A stop takes all scenes; who still lacks one has a number of its own.      *)
LEMMA DeactivateKept == ASSUME IndInv, KeptInv, Deactivate PROVE KeptInv'
<1>0. /\ m_scenes' = <<>> /\ m_commands' = <<>> /\ UNCHANGED <<comp, activations>>
      /\ ended' = ended \union ({comp[e].scene : e \in SceneEntity} \ {NoScene})
  BY DEF Deactivate, counters
<1>1. CompInv(comp, activations) /\ comp \in [SceneEntity -> Component] /\ activations \in Nat BY DEF IndInv, CompInv
<1>2. ASSUME NEW e \in SceneEntity, comp[e].scene # NoScene
      PROVE  comp[e].scene \in 1 .. activations /\ comp[e].scene = comp[e].number /\ comp[e].number # 0
  <2>1. comp[e].scene = comp[e].number /\ comp[e].life # "Inactive" /\ comp[e].number \in Nat
    BY <1>1, <1>2 DEF CompInv, Component
  <2>2. comp[e].number # 0 /\ comp[e].number <= activations BY <1>1, <2>1 DEF CompInv
  <2> QED BY <1>1, <2>1, <2>2
<1>3. ended' \subseteq 1 .. activations BY <1>0, <1>2 DEF KeptInv
<1>4. DOMAIN m_scenes' = {} /\ Len(m_commands') = 0 BY <1>0
<1>5. ASSUME NEW e \in SceneEntity
      PROVE  /\ comp[e].life = "Ready" => comp[e].scene \in ended'
             /\ comp[e].life \in {"Collecting", "Building"} /\ comp[e].scene = NoScene => comp[e].number \notin ended'
  <2>1. comp[e].life = "Ready" => comp[e].scene # NoScene BY DEF IndInv, SceneInv
  <2>2. ASSUME comp[e].life \in {"Collecting", "Building"}, comp[e].scene = NoScene, comp[e].number \in ended'
        PROVE  FALSE
    <3>1. comp[e].number \notin ended BY <2>2 DEF KeptInv
    <3>2. PICK f \in SceneEntity : comp[f].scene = comp[e].number /\ comp[f].scene # NoScene BY <1>0, <2>2, <3>1
    <3>3. comp[f].number = comp[e].number /\ comp[f].number # 0 BY <1>2, <3>2
    <3>4. f = e BY <1>1, <3>3 DEF CompInv
    <3> QED BY <2>2, <3>2, <3>4
  <2> QED BY <1>0, <2>1, <2>2
<1>6. \A i \in 1 .. Len(m_commands') : Condemned(m_commands'[i], comp, activations) BY <1>4
<1> QED BY <1>0, <1>3, <1>4, <1>5, <1>6 DEF KeptInv

(* Every step keeps it.                                                       *)
LEMMA NextKept == IndInv /\ KeptInv /\ [Next]_vars => KeptInv'
<1> SUFFICES ASSUME IndInv, KeptInv, [Next]_vars PROVE KeptInv' OBVIOUS
<1>1. ASSUME UNCHANGED <<comp, m_scenes, m_commands, ended, activations>> PROVE KeptInv'
  BY <1>1 DEF KeptInv, Condemned
<1>2. CASE UNCHANGED vars BY <1>1, <1>2 DEF vars
<1>3. CASE \E o \in Owner : UnregisterPrefab(o) \/ \E t \in SceneEntity \union {NoEntity} : RegisterPrefab(o, t)
  BY <1>1, <1>3 DEF UnregisterPrefab, RegisterPrefab, history, counters
<1>4. CASE OnGameEntitiesReset \/ Activate BY <1>1, <1>4 DEF OnGameEntitiesReset, Activate, history, counters
<1> QED BY <1>2, <1>3, <1>4, AssetKept, CollectionKept, ProcessKept, DeactivateSceneKept, ActivateSceneKept,
           DeactivateKept DEF Next, AssetEnds

(* The inductive invariant of the build: tokens have one holder and the     *)
(* answer its life calls for, scenes have the owner whose number they bear, *)
(* queued commands ask for what that owner holds.                           *)
THEOREM BuildInvariant == Spec => []IndInv
<1> QED BY InitInv, NextKeeps, PTL DEF Spec

(* No registration is answered twice: ReplyPrefabRegistration runs once for *)
(* a token, whether its asset fails, its scene fails, its target is missing *)
(* or its scene is ready.                                                   *)
THEOREM OneAnswer == Spec => []AnsweredOnce
<1>1. IndInv => AnsweredOnce BY DEF IndInv, AnsInv, AnsweredOnce
<1> QED BY <1>1, BuildInvariant, PTL

(* No scene goes but with its component or with a stop of the system, and   *)
(* none comes under the handle of one that a stop took.                     *)
THEOREM ScenesKept == Spec => []KeptInv
<1>1. Init => KeptInv BY DEF Init, KeptInv, Inactive
<1> QED BY <1>1, NextKept, BuildInvariant, PTL DEF Spec

(* A ready component has its scene unless a stop of the system took it: the *)
(* whole of it, with all of its prefabs loaded and accepted, and everyone   *)
(* who registered was told so.                                              *)
THEOREM WholeScenes == Spec => []ReadyIsWhole
<1>1. ASSUME IndInv, KeptInv, NEW e \in SceneEntity, comp[e].life = "Ready"
      PROVE  /\ comp[e].scene \in ended => comp[e].scene \notin DOMAIN m_scenes
             /\ comp[e].scene \notin ended =>
                  /\ comp[e].scene \in DOMAIN m_scenes
                  /\ m_scenes[comp[e].scene] = [life |-> "Alive", partitions |-> TokensOf(comp[e].regs)]
             /\ \A r \in comp[e].regs : /\ answers[r.token] = <<"ready">>
                                        /\ PrefabOf[r.owner] \notin BadPrefab
                                        /\ asset[PrefabOf[r.owner]] = "ready"
  <2>1. /\ comp[e].scene # NoScene /\ Accepted(comp, asset, e)
        /\ comp[e].scene \in DOMAIN m_scenes =>
             m_scenes[comp[e].scene] = [life |-> "Alive", partitions |-> TokensOf(comp[e].regs)]
    BY <1>1 DEF IndInv, SceneInv
  <2>2. \A r \in comp[e].regs : answers[r.token] = <<"ready">> BY <1>1 DEF IndInv, AnsInv
  <2>3. /\ comp[e].scene \in ended => comp[e].scene \notin DOMAIN m_scenes
        /\ comp[e].scene \notin ended => comp[e].scene \in DOMAIN m_scenes
    BY <1>1 DEF KeptInv
  <2> QED BY <2>1, <2>2, <2>3 DEF Accepted
<1>2. IndInv /\ KeptInv => ReadyIsWhole BY <1>1 DEF ReadyIsWhole
<1> QED BY <1>2, BuildInvariant, ScenesKept, PTL

(* Every scene that is not being destroyed has a component that builds or   *)
(* uses it, also when components go while their scenes are queued.          *)
THEOREM OwnedScenes == Spec => []ScenesOwned
<1>1. IndInv => ScenesOwned BY DEF IndInv, SceneInv, ScenesOwned
<1> QED BY <1>1, BuildInvariant, PTL

(* No registration that was resolved is lost without an answer.             *)
THEOREM NothingLost == Spec => []NoneLost
<1>1. IndInv => NoneLost BY DEF IndInv
<1> QED BY <1>1, BuildInvariant, PTL
================================================================================
