---------------------------- MODULE AiEngineProofs ----------------------------
(***************************************************************************)
(* What the AI layer guarantees for any users, jobs and records.  Runs of  *)
(* one student interleave between any two awaits; what each job may rely   *)
(* on is stated in terms of what only grows: the versions of the records,  *)
(* the study days counted, and the mappings there have ever been.          *)
(***************************************************************************)
EXTENDS AiEngine, TLAPS

USE AiAssumption

Single == {"view", "refresh"}
Loops  == {"all", "copilot"}

(* The statements behind the first query of a run, and those behind the     *)
(* upsert of the insight.                                                   *)
Past   == InRun \ {"gather"}
Stored == {"log", "gami", "row", "update", "award", "reselect"}

(* What a job holds, besides its types. *)
JobTyped(x) ==
    /\ x.pc \in InRun \cup {"mapped", "select", "summary", "reselect"} => x.of \in User
    /\ x.pc \in {"upsert", "log", "gami", "row", "update", "award"} => x.low \in 1..x.high
    /\ x.pc = "award" => x.due # {}
    /\ x.pc \in {"mapped", "select", "reselect"} => x.job \in Single
    /\ x.pc \in {"list", "next"} => x.job \in Loops
    /\ x.pc = "summary" => x.job = "copilot"
    /\ x.alone => x.pc \in Past \cup {"reselect"}
    /\ (x.pc # "idle" /\ x.job \in Single) => x.by \in User
    /\ (x.pc # "idle" /\ x.job = "copilot") => x.by \in Tutor

(* Whom a tutor's job is about. *)
JobGranted(x) ==
    /\ (x.pc \in InRun \cup {"select", "reselect"} /\ x.job \in Single /\ Role[x.by] = "tutor")
           => <<x.by, x.of>> \in everMapped
    /\ (x.pc # "idle" /\ x.job = "copilot")
           => \A s \in x.todo \cup x.out : <<x.by, s>> \in everMapped
    /\ (x.pc \in InRun \cup {"summary"} /\ x.job = "copilot") => <<x.by, x.of>> \in everMapped

(* What the versions and the counts a job has read mean by now. *)
JobRead(x) ==
    /\ x.pc = "analyze" => x.low \in 1..evidence[x.of]
    /\ x.pc \in InRun \cup {"mapped", "select", "reselect"} => x.asked <= evidence[x.of]
    /\ (x.pc # "idle" /\ x.job \in Loops) => x.asked = 0
    /\ x.pc = "update" =>
           x.streak <= counted[x.of] + (IF x.high \in Studied THEN 1 ELSE 0)
    /\ (x.pc = "award" /\ "streak_7" \in x.due) => counted[x.of] >= 7

JobInv(x) == JobTyped(x) /\ JobGranted(x) /\ JobRead(x)

TablesInv ==
    /\ evidence \in [User -> 1..MaxEvidence]
    /\ mapped \subseteq Tutor \X Student
    /\ clock \in 0..MaxClock
    /\ insight \in [User -> 0..MaxEvidence]
    /\ aged \subseteq User
    /\ trend \in [User -> SUBSET (1..MaxEvidence)]
    /\ gami \in [User -> GamiRow \cup {NoGami}]
    /\ badges \in [User -> SUBSET Badge]
    /\ brief \in [User -> Tutor \cup {NoUser}]
    /\ counted \in [User -> Nat]
    /\ torn \subseteq User
    /\ everMapped \subseteq Tutor \X Student
    /\ mapped \subseteq everMapped

(* Whoever has begun behind the back of a job that was alone has gathered   *)
(* later than the job was asked.                                            *)
FreshInv ==
    \A r \in Request : h[r].alone =>
        /\ h[r].pc \in Past \cup {"reselect"} =>
               \A q \in Request : (h[q].pc \in Past /\ h[q].of = h[r].of)
                                      => h[q].low >= h[r].asked
        /\ h[r].pc \in Stored => insight[h[r].of] >= h[r].asked

IInv ==
    /\ TablesInv
    /\ h \in [Request -> Handler]
    /\ \A r \in Request : JobInv(h[r])
    /\ FreshInv /\ InsightLogged /\ StreakBacked /\ TutorSeesOwn

-----------------------------------------------------------------------------

LEMMA IInvImplies ==
  IInv => TypeOK /\ InsightLogged /\ StreakBacked /\ AloneIsFresh /\ TutorSeesOwn
<1> SUFFICES ASSUME IInv
             PROVE  TypeOK /\ InsightLogged /\ StreakBacked /\ AloneIsFresh /\ TutorSeesOwn
  OBVIOUS
<1>1. TypeOK
  <2>1. shown \subseteq Tutor \X User
    BY DEF IInv, TablesInv, TutorSeesOwn, Student
  <2> QED  BY <2>1 DEF IInv, TablesInv, JobInv, JobTyped, TypeOK
<1>2. AloneIsFresh
  BY DEF IInv, FreshInv, AloneIsFresh, Stored
<1> QED  BY <1>1, <1>2 DEF IInv

LEMMA IdleFacts ==
  /\ Idle \in Handler /\ Idle.pc = "idle" /\ Idle.alone = FALSE
  /\ Idle.todo = {} /\ Idle.out = {} /\ Idle.asked = 0
  /\ JobInv(Idle) /\ JobInv(Idle)'
<1>1. /\ Idle \in Handler /\ Idle.pc = "idle" /\ Idle.alone = FALSE
      /\ Idle.todo = {} /\ Idle.out = {} /\ Idle.asked = 0
  BY DEF Idle, Handler, Job, Running, InRun
<1> QED  BY <1>1 DEF JobInv, JobTyped, JobGranted, JobRead, InRun

LEMMA InitIInv == Init => IInv
<1> SUFFICES ASSUME Init PROVE IInv
  OBVIOUS
<1>1. TablesInv
  BY DEF Init, TablesInv, Student, Tutor
<1>2. h \in [Request -> Handler] /\ \A r \in Request : JobInv(h[r]) /\ ~h[r].alone
  BY IdleFacts DEF Init
<1> QED  BY <1>1, <1>2 DEF Init, IInv, FreshInv, InsightLogged, StreakBacked, TutorSeesOwn

-----------------------------------------------------------------------------
(* Stability. *)

(* Versions, counts and the history of mappings only grow. *)
Grow ==
    /\ TablesInv'
    /\ \A u \in User : evidence[u] <= evidence'[u] /\ counted[u] <= counted'[u]
    /\ everMapped \subseteq everMapped'

LEMMA JobStable ==
  ASSUME TablesInv, Grow, NEW x \in Handler, JobInv(x)
  PROVE  JobInv(x)'
<1>1. JobTyped(x)' /\ JobGranted(x)'
  BY DEF JobInv, JobTyped, JobGranted, Grow
<1>2. JobRead(x)'
  <2>1. x.pc \in InRun \cup {"mapped", "select", "reselect"} =>
            /\ x.of \in User /\ evidence[x.of] \in Nat /\ evidence'[x.of] \in Nat
            /\ counted[x.of] \in Nat /\ counted'[x.of] \in Nat
            /\ evidence[x.of] <= evidence'[x.of] /\ counted[x.of] <= counted'[x.of]
    BY DEF JobInv, JobTyped, Grow, TablesInv
  <2>2. x.low \in Nat /\ x.asked \in Nat /\ x.streak \in Nat
    BY DEF Handler
  <2> QED  BY <2>1, <2>2 DEF JobInv, JobRead, InRun
<1> QED  BY <1>1, <1>2 DEF JobInv

(* One job moves. *)
LEMMA JobsMove ==
  ASSUME IInv, Grow, NEW r \in Request, NEW x \in Handler,
         h' = [h EXCEPT ![r] = x], JobInv(x)'
  PROVE  h' \in [Request -> Handler] /\ \A q \in Request : JobInv(h[q])'
<1>1. h' \in [Request -> Handler]
  BY DEF IInv
<1>2. ASSUME NEW q \in Request PROVE JobInv(h[q])'
  <2>1. CASE q = r
    BY <2>1 DEF IInv
  <2>2. CASE q # r
    <3>1. h[q] \in Handler /\ JobInv(h[q]) /\ h'[q] = h[q] /\ TablesInv
      BY <2>2 DEF IInv
    <3>2. \A y \in Handler : JobInv(y) => JobInv(y)'
      BY <3>1, JobStable
    <3> QED  BY <3>1, <3>2
  <2> QED  BY <2>1, <2>2
<1> QED  BY <1>1, <1>2

(* A move that begins no run and stores no insight. *)
LEMMA FreshMove ==
  ASSUME IInv, NEW r \in Request, NEW x \in Handler,
         h' = [h EXCEPT ![r] = x], insight' = insight,
         x.pc \in Past => h[r].pc \in Past /\ x.of = h[r].of /\ x.low = h[r].low,
         x.alone => /\ h[r].alone /\ x.of = h[r].of /\ x.asked = h[r].asked
                    /\ h[r].pc \in Past \cup {"reselect"}
                    /\ x.pc \in Stored => h[r].pc \in Stored
  PROVE  FreshInv'
  BY DEF IInv, FreshInv

LEMMA LoggedMove ==
  ASSUME IInv, NEW r \in Request, NEW x,
         h' = [h EXCEPT ![r] = x], insight' = insight, trend' = trend, torn' = torn,
         h[r].pc # "log"
  PROVE  InsightLogged'
  BY DEF IInv, InsightLogged

(* A move that writes none of the tables of a run. *)
LEMMA QuietMove ==
  ASSUME IInv, NEW r \in Request, NEW x \in Handler,
         h' = [h EXCEPT ![r] = x], UNCHANGED <<records, insights, rewards>>,
         brief' \in [User -> Tutor \cup {NoUser}], shown' \subseteq everMapped,
         JobInv(x), h[r].pc # "log",
         x.pc \in Past => h[r].pc \in Past /\ x.of = h[r].of /\ x.low = h[r].low,
         x.alone => /\ h[r].alone /\ x.of = h[r].of /\ x.asked = h[r].asked
                    /\ h[r].pc \in Past \cup {"reselect"}
                    /\ x.pc \in Stored => h[r].pc \in Stored
  PROVE  IInv'
<1>1. /\ evidence' = evidence /\ mapped' = mapped /\ everMapped' = everMapped
      /\ clock' = clock /\ insight' = insight /\ aged' = aged /\ trend' = trend
      /\ torn' = torn /\ gami' = gami /\ badges' = badges /\ counted' = counted
  BY DEF records, insights, rewards
<1>2. Grow
  BY <1>1 DEF Grow, IInv, TablesInv
<1>3. TablesInv /\ h' \in [Request -> Handler] /\ \A q \in Request : JobInv(h[q])'
  BY <1>2, JobStable, JobsMove DEF IInv
<1>4. FreshInv' /\ InsightLogged'
  BY <1>1, FreshMove, LoggedMove
<1>5. StreakBacked' /\ TutorSeesOwn'
  BY <1>1 DEF IInv, StreakBacked, TutorSeesOwn
<1> QED  BY <1>2, <1>3, <1>4, <1>5 DEF IInv, Grow

(* What a job is answered with at its end. *)
LEMMA AnswerMove ==
  ASSUME IInv, NEW r \in Request, NEW students, Answer(r, students),
         UNCHANGED <<records, insights, rewards, brief>>, h[r].pc # "log",
         Role[h[r].by] = "tutor" =>
             \A s \in students : <<h[r].by, s>> \in everMapped
  PROVE  IInv'
<1>1. h' = [h EXCEPT ![r] = Idle] /\ shown' \subseteq everMapped
  BY DEF Answer, IInv, TutorSeesOwn
<1>2. brief' \in [User -> Tutor \cup {NoUser}]
  BY DEF IInv, TablesInv
<1> QED  BY <1>1, <1>2, IdleFacts, QuietMove DEF Past, InRun

LEMMA IdleMove ==
  ASSUME IInv, NEW r \in Request, h' = [h EXCEPT ![r] = Idle],
         UNCHANGED <<records, insights, rewards, brief, shown>>, h[r].pc # "log"
  PROVE  IInv'
<1>1. brief' \in [User -> Tutor \cup {NoUser}] /\ shown' \subseteq everMapped
  BY DEF IInv, TablesInv, TutorSeesOwn
<1> QED  BY <1>1, IdleFacts, QuietMove DEF Past, InRun

-----------------------------------------------------------------------------
(* The routes and the loops. *)

LEMMA AskKeepsIInv ==
  ASSUME IInv, NEW r \in Request, NEW u \in User, NEW s \in User, NEW job \in Single,
         Ask(r, u, s, job)
  PROVE  IInv'
<1> DEFINE pc == IF Role[u] = "tutor" THEN "mapped" ELSE "select"
           x  == [Idle EXCEPT !.pc = pc, !.job = job, !.by = u, !.of = s,
                              !.asked = evidence[s]]
<1>1. /\ h[r].pc = "idle" /\ h' = [h EXCEPT ![r] = x]
      /\ UNCHANGED <<records, insights, rewards, brief, shown>>
  BY DEF Ask
<1>2. evidence[s] \in 1..MaxEvidence /\ evidence[s] \in 0..MaxEvidence
  BY DEF IInv, TablesInv
<1>3. pc \in {"mapped", "select"} /\ (pc = "select" => Role[u] # "tutor")
  OBVIOUS
<1>4. /\ x \in Handler /\ x.pc = pc /\ x.job = job /\ x.by = u /\ x.of = s
      /\ x.asked = evidence[s] /\ ~x.alone
  <2>1. pc \in Running \cup {"idle"} /\ job \in Job /\ job \in Single
    BY <1>3 DEF Running, Job, Single
  <2> HIDE DEF pc
  <2> QED  BY <1>2, <2>1, IdleFacts DEF Handler
<1> HIDE DEF pc, x
<1>5. JobInv(x)
  BY <1>2, <1>3, <1>4 DEF JobInv, JobTyped, JobGranted, JobRead, InRun, Single, Loops
<1>6. brief' \in [User -> Tutor \cup {NoUser}] /\ shown' \subseteq everMapped
  BY <1>1 DEF IInv, TablesInv, TutorSeesOwn
<1> QED  BY <1>1, <1>3, <1>4, <1>5, <1>6, QuietMove DEF Past, InRun

(* A job that goes on with everything it holds. *)
LEMMA GotoMove ==
  ASSUME IInv, NEW r \in Request, NEW pc \in Running, Goto(r, pc),
         UNCHANGED <<records, insights, rewards, brief, shown>>,
         h[r].pc # "log", pc \notin Past \cup {"reselect"},
         JobInv([h[r] EXCEPT !.pc = pc])
  PROVE  IInv'
<1> DEFINE x == [h[r] EXCEPT !.pc = pc]
<1>1. h[r] \in Handler /\ h' = [h EXCEPT ![r] = x]
  BY DEF IInv, Goto
<1>2. x \in Handler /\ x.pc = pc /\ x.alone = h[r].alone
  BY <1>1 DEF Handler
<1>3. brief' \in [User -> Tutor \cup {NoUser}] /\ shown' \subseteq everMapped
  BY DEF IInv, TablesInv, TutorSeesOwn
<1>4. JobInv(x)
  OBVIOUS
<1> HIDE DEF x
<1>5. ~x.alone
  BY <1>2, <1>4 DEF JobInv, JobTyped
<1> QED  BY <1>1, <1>2, <1>3, <1>4, <1>5, QuietMove

LEMMA RouteKeepsIInv ==
  ASSUME IInv, NEW r \in Request, CheckMapped(r) \/ SelectInsight(r) \/ Reselect(r)
  PROVE  IInv'
<1>0. h[r] \in Handler /\ JobInv(h[r]) /\ mapped \subseteq everMapped
  BY DEF IInv, TablesInv
<1>1. ASSUME NEW pc \in {"select", "gather"}, h[r].pc \in {"mapped", "select"},
             h[r].pc = "mapped" => <<h[r].by, h[r].of>> \in mapped
      PROVE  /\ JobInv([h[r] EXCEPT !.pc = pc]) /\ pc \in Running
             /\ pc \notin Past \cup {"reselect"}
  <2> DEFINE x == [h[r] EXCEPT !.pc = pc]
  <2>1. /\ x.pc = pc /\ x.by = h[r].by /\ x.of = h[r].of /\ x.job = h[r].job
        /\ x.asked = h[r].asked /\ x.alone = h[r].alone
    BY <1>0 DEF Handler
  <2>4. ~h[r].alone
    BY <1>0, <1>1 DEF JobInv, JobTyped, Past, InRun
  <2>2. h[r].job \in Single
    BY <1>0, <1>1 DEF JobInv, JobTyped
  <2> HIDE DEF x
  <2>3. JobInv(x)
    BY <1>0, <1>1, <2>1, <2>2, <2>4
       DEF JobInv, JobTyped, JobGranted, JobRead, InRun, Single, Loops
  <2> QED  BY <2>3 DEF x, Running, InRun, Past
<1>2. CASE CheckMapped(r)
  <2>1. CASE <<h[r].by, h[r].of>> \in mapped
    <3>1. h[r].pc = "mapped" /\ Goto(r, "select")
      BY <1>2, <2>1 DEF CheckMapped
    <3>2. /\ JobInv([h[r] EXCEPT !.pc = "select"]) /\ "select" \in Running
          /\ "select" \notin Past \cup {"reselect"}
      BY <1>1, <2>1, <3>1
    <3> QED  BY <1>2, <3>1, <3>2, GotoMove DEF CheckMapped
  <2>2. CASE <<h[r].by, h[r].of>> \notin mapped
    BY <1>2, <2>2, IdleMove DEF CheckMapped
  <2> QED  BY <2>1, <2>2
<1>3. CASE SelectInsight(r)
  <2> DEFINE s == h[r].of
  <2>1. CASE insight[s] = 0 \/ s \in aged \/ h[r].job = "refresh"
    <3>1. h[r].pc = "select" /\ Goto(r, "gather") /\ shown' = shown
      BY <1>3, <2>1 DEF SelectInsight
    <3>2. /\ JobInv([h[r] EXCEPT !.pc = "gather"]) /\ "gather" \in Running
          /\ "gather" \notin Past \cup {"reselect"}
      BY <1>1, <3>1
    <3> QED  BY <1>3, <3>1, <3>2, GotoMove DEF SelectInsight
  <2>2. CASE ~(insight[s] = 0 \/ s \in aged \/ h[r].job = "refresh")
    <3>1. Answer(r, {s}) /\ UNCHANGED <<records, insights, rewards, brief>>
      BY <1>3, <2>2 DEF SelectInsight
    <3>2. Role[h[r].by] = "tutor" => <<h[r].by, s>> \in everMapped
      BY <1>0, <1>3 DEF SelectInsight, JobInv, JobTyped, JobGranted
    <3> QED  BY <1>3, <3>1, <3>2, AnswerMove DEF SelectInsight
  <2> QED  BY <2>1, <2>2
<1>4. CASE Reselect(r)
  <2>1. Role[h[r].by] = "tutor" => <<h[r].by, h[r].of>> \in everMapped
    BY <1>0, <1>4 DEF Reselect, JobInv, JobTyped, JobGranted
  <2> QED  BY <1>4, <2>1, AnswerMove DEF Reselect
<1> QED  BY <1>2, <1>3, <1>4

LEMMA LoopKeepsIInv ==
  ASSUME IInv, NEW r \in Request,
         \/ StartAll(r) \/ (\E t \in Tutor : StartCopilot(r, t))
         \/ List(r) \/ NextStudent(r) \/ EndLoop(r) \/ Summary(r)
  PROVE  IInv'
<1>0. /\ h[r] \in Handler /\ JobInv(h[r]) /\ mapped \subseteq everMapped
      /\ brief \in [User -> Tutor \cup {NoUser}] /\ shown \subseteq everMapped
  BY DEF IInv, TablesInv, TutorSeesOwn
<1>1. ASSUME NEW x \in Handler, h' = [h EXCEPT ![r] = x], h[r].pc # "log",
             UNCHANGED <<records, insights, rewards, brief, shown>>,
             x.pc \notin Past \cup {"reselect"}, JobInv(x)
      PROVE  IInv'
  <2>1. ~x.alone
    BY <1>1 DEF JobInv, JobTyped
  <2> QED  BY <1>0, <1>1, <2>1, QuietMove
<1>2. CASE StartAll(r)
  <2> DEFINE x == [Idle EXCEPT !.pc = "list", !.job = "all"]
  <2>1. /\ x \in Handler /\ x.pc = "list" /\ x.job = "all" /\ x.alone = FALSE
        /\ x.asked = 0
    BY IdleFacts DEF Handler, Job, Running, InRun
  <2>2. h' = [h EXCEPT ![r] = x]
    BY <1>2 DEF StartAll
  <2> HIDE DEF x
  <2>3. JobInv(x) /\ x.pc \notin Past \cup {"reselect"}
    BY <2>1 DEF JobInv, JobTyped, JobGranted, JobRead, InRun, Single, Loops, Past
  <2> QED  BY <1>1, <1>2, <2>1, <2>2, <2>3 DEF StartAll
<1>3. ASSUME NEW t \in Tutor, StartCopilot(r, t)
      PROVE  IInv'
  <2> DEFINE x == [Idle EXCEPT !.pc = "list", !.job = "copilot", !.by = t]
  <2>1. /\ x \in Handler /\ x.pc = "list" /\ x.job = "copilot" /\ x.alone = FALSE
        /\ x.asked = 0 /\ x.by = t /\ x.todo = {} /\ x.out = {}
    BY IdleFacts DEF Handler, Job, Running, InRun, Tutor
  <2>2. h' = [h EXCEPT ![r] = x]
    BY <1>3 DEF StartCopilot
  <2> HIDE DEF x
  <2>3. JobInv(x) /\ x.pc \notin Past \cup {"reselect"}
    BY <2>1 DEF JobInv, JobTyped, JobGranted, JobRead, InRun, Single, Loops, Past
  <2> QED  BY <1>1, <1>3, <2>1, <2>2, <2>3 DEF StartCopilot
<1>4. CASE List(r)
  <2>1. PICK students \in SUBSET Student :
            /\ h[r].job = "copilot" =>
                   students = {s \in Student : <<h[r].by, s>> \in mapped}
            /\ h' = [h EXCEPT ![r].pc = "next", ![r].todo = students]
    BY <1>4 DEF List
  <2> DEFINE x == [h[r] EXCEPT !.pc = "next", !.todo = students]
  <2>2. h' = [h EXCEPT ![r] = x] /\ students \subseteq User
    BY <2>1 DEF IInv, Student
  <2>3. /\ x \in Handler /\ x.pc = "next" /\ x.job = h[r].job /\ x.alone = h[r].alone
        /\ x.asked = h[r].asked /\ x.by = h[r].by /\ x.todo = students
        /\ x.out = h[r].out
    BY <1>0, <2>2 DEF Handler, Running
  <2> HIDE DEF x
  <2>4. JobInv(x) /\ x.pc \notin Past \cup {"reselect"}
    BY <1>0, <1>4, <2>1, <2>3
       DEF List, JobInv, JobTyped, JobGranted, JobRead, InRun, Single, Loops, Past
  <2> QED  BY <1>1, <1>4, <2>2, <2>3, <2>4 DEF List
<1>5. CASE NextStudent(r)
  <2>1. PICK s \in h[r].todo :
            h' = [h EXCEPT ![r].pc = "gather", ![r].of = s, ![r].todo = @ \ {s}]
    BY <1>5 DEF NextStudent
  <2> DEFINE x == [h[r] EXCEPT !.pc = "gather", !.of = s, !.todo = @ \ {s}]
  <2>2. h' = [h EXCEPT ![r] = x] /\ s \in User
    BY <1>0, <2>1 DEF IInv, Handler
  <2>3. /\ x \in Handler /\ x.pc = "gather" /\ x.job = h[r].job /\ x.of = s
        /\ x.asked = h[r].asked /\ x.by = h[r].by /\ x.todo = h[r].todo \ {s}
        /\ x.out = h[r].out /\ x.alone = h[r].alone
    BY <1>0, <2>2 DEF Handler, Running, InRun
  <2>4. h[r].job \in Loops /\ h[r].asked = 0 /\ evidence[s] \in 1..MaxEvidence
    BY <1>0, <1>5, <2>2 DEF NextStudent, JobInv, JobTyped, JobRead, IInv, TablesInv
  <2> HIDE DEF x
  <2>5. JobTyped(x)
    BY <1>0, <1>5, <2>2, <2>3, <2>4
       DEF NextStudent, JobInv, JobTyped, InRun, Single, Loops, Past
  <2>6. JobGranted(x)
    BY <1>0, <1>5, <2>1, <2>3, <2>4
       DEF NextStudent, JobInv, JobGranted, InRun, Single, Loops
  <2>7. JobRead(x) /\ x.pc \notin Past \cup {"reselect"}
    BY <2>2, <2>3, <2>4 DEF JobRead, InRun, Past
  <2> QED  BY <1>1, <1>5, <2>2, <2>3, <2>5, <2>6, <2>7 DEF JobInv, NextStudent
<1>6. CASE EndLoop(r)
  <2>1. CASE h[r].job = "copilot"
    <3>1. \A s \in h[r].out : <<h[r].by, s>> \in everMapped
      BY <1>0, <1>6, <2>1 DEF EndLoop, JobInv, JobGranted
    <3> QED  BY <1>6, <2>1, <3>1, AnswerMove DEF EndLoop
  <2>2. CASE h[r].job # "copilot"
    BY <1>6, <2>2, IdleMove DEF EndLoop
  <2> QED  BY <2>1, <2>2
<1>7. CASE Summary(r)
  <2> DEFINE s == h[r].of
             x == [h[r] EXCEPT !.pc = "next", !.out = @ \cup {s}]
  <2>1. /\ h' = [h EXCEPT ![r] = x] /\ s \in User
        /\ h[r].job = "copilot" /\ h[r].by \in Tutor
    BY <1>0, <1>7 DEF Summary, IInv, JobInv, JobTyped
  <2>2. /\ x \in Handler /\ x.pc = "next" /\ x.job = h[r].job /\ x.alone = h[r].alone
        /\ x.asked = h[r].asked /\ x.by = h[r].by /\ x.todo = h[r].todo
        /\ x.out = h[r].out \cup {s}
    BY <1>0, <2>1 DEF Handler, Running
  <2>3. brief' \in [User -> Tutor \cup {NoUser}]
    BY <1>0, <1>7, <2>1 DEF Summary
  <2> HIDE DEF x
  <2>4. JobInv(x) /\ x.pc \notin Past \cup {"reselect"}
    BY <1>0, <1>7, <2>1, <2>2
       DEF Summary, JobInv, JobTyped, JobGranted, JobRead, InRun, Single, Loops, Past
  <2>5. ~x.alone
    BY <2>4 DEF JobInv, JobTyped
  <2> QED  BY <1>0, <1>7, <2>1, <2>2, <2>3, <2>4, <2>5, QuietMove DEF Summary
<1> QED  BY <1>2, <1>3, <1>4, <1>5, <1>6, <1>7

-----------------------------------------------------------------------------
(* The run: gathering, and the two tables of the insight. *)

(* A step of one job that writes tables. *)
LEMMA WriteMove ==
  ASSUME IInv, Grow, NEW r \in Request, NEW x \in Handler,
         h' = [h EXCEPT ![r] = x], JobInv(x)', shown' = shown,
         FreshInv', InsightLogged', StreakBacked'
  PROVE  IInv'
<1>1. h' \in [Request -> Handler] /\ \A q \in Request : JobInv(h[q])'
  BY JobsMove
<1>2. TablesInv' /\ TutorSeesOwn'
  BY DEF Grow, IInv, TutorSeesOwn
<1> QED  BY <1>1, <1>2 DEF IInv

LEMMA GatherKeepsIInv ==
  ASSUME IInv, NEW r \in Request, Gather(r)
  PROVE  IInv'
<1> DEFINE s == h[r].of
<1>0. PICK x :
        x = [h[r] EXCEPT !.pc = "analyze", !.low = evidence[s], !.alone = ~Rival(r)]
  OBVIOUS
<1>1. h[r] \in Handler /\ JobInv(h[r]) /\ h[r].pc = "gather"
  BY DEF IInv, Gather
<1>2. s \in User /\ evidence[s] \in 1..MaxEvidence /\ evidence[s] \in 0..MaxEvidence
  BY <1>1 DEF IInv, TablesInv, JobInv, JobTyped, InRun
<1>3. h' = [h EXCEPT ![r] = x]
  BY <1>0, <1>1 DEF IInv, Gather
<1>4. (~Rival(r)) \in BOOLEAN /\ "analyze" \in Running
  BY DEF Rival, Running, InRun
<1>5. /\ x \in Handler /\ x.pc = "analyze" /\ x.low = evidence[s] /\ x.of = s
      /\ x.job = h[r].job /\ x.by = h[r].by /\ x.todo = h[r].todo /\ x.out = h[r].out
      /\ x.asked = h[r].asked /\ x.high = h[r].high
  <2>1. PICK alone \in BOOLEAN : alone = ~Rival(r)
    BY <1>4
  <2>2. x = [h[r] EXCEPT !.pc = "analyze", !.low = evidence[s], !.alone = alone]
    BY <1>0, <2>1
  <2> QED  BY <1>1, <1>2, <1>4, <2>1, <2>2 DEF Handler
<1>6. x.alone => ~Rival(r)
  BY <1>0, <1>1 DEF Handler
<1>7. UNCHANGED <<records, insights, rewards, brief, shown>>
  BY DEF Gather
<1>8. Grow
  BY <1>7 DEF Grow, IInv, TablesInv, records, insights, rewards
<1>9. JobInv(x)
  <2>1. JobTyped(x)
    BY <1>1, <1>2, <1>5 DEF JobInv, JobTyped, InRun, Past
  <2>2. JobGranted(x)
    BY <1>1, <1>5 DEF JobInv, JobGranted, InRun
  <2>3. JobRead(x)
    BY <1>1, <1>2, <1>5 DEF JobInv, JobRead, InRun
  <2> QED  BY <2>1, <2>2, <2>3 DEF JobInv
<1>10. JobInv(x)'
  BY <1>5, <1>8, <1>9, JobStable DEF IInv
<1>11. FreshInv'
  <2>1. insight' = insight
    BY <1>7 DEF insights
  <2>2. ASSUME NEW o \in Request, h[o].pc \in InRun \cup {"reselect"}
        PROVE  evidence[h[o].of] >= h[o].asked
    <3>1. h[o] \in Handler /\ JobInv(h[o])
      BY DEF IInv
    <3>2. h[o].of \in User /\ h[o].asked <= evidence[h[o].of]
      BY <2>2, <3>1 DEF JobInv, JobTyped, JobRead
    <3>3. evidence[h[o].of] \in Nat /\ h[o].asked \in Nat
      BY <3>1, <3>2 DEF IInv, TablesInv, Handler
    <3> QED  BY <3>2, <3>3
  <2>3. ASSUME NEW o \in Request, h'[o].alone, h'[o].pc \in Past \cup {"reselect"},
               NEW q \in Request, h'[q].pc \in Past, h'[q].of = h'[o].of
        PROVE  h'[q].low >= h'[o].asked
    <3>1. CASE q = r
      BY <1>1, <1>3, <1>5, <2>2, <2>3, <3>1 DEF IInv, Past, InRun
    <3>2. CASE q # r /\ o = r
      BY <1>3, <1>5, <1>6, <2>3, <3>2 DEF IInv, Past, Rival
    <3>3. CASE q # r /\ o # r
      BY <1>3, <2>3, <3>3 DEF IInv, FreshInv
    <3> QED  BY <3>1, <3>2, <3>3
  <2>4. ASSUME NEW o \in Request, h'[o].alone, h'[o].pc \in Stored
        PROVE  insight'[h'[o].of] >= h'[o].asked
    <3>1. o # r
      BY <1>3, <1>5, <2>4 DEF IInv, Stored
    <3> QED  BY <1>3, <2>1, <2>4, <3>1 DEF IInv, FreshInv
  <2> QED  BY <2>3, <2>4 DEF FreshInv
<1>12. InsightLogged'
  <2>1. insight' = insight /\ trend' = trend /\ torn' = torn
    BY <1>7 DEF insights
  <2> QED  BY <1>1, <1>3, <2>1, LoggedMove
<1>13. StreakBacked'
  BY <1>7 DEF IInv, StreakBacked, rewards
<1> QED  BY <1>3, <1>5, <1>7, <1>8, <1>10, <1>11, <1>12, <1>13, WriteMove

LEMMA AnalyzeKeepsIInv ==
  ASSUME IInv, NEW r \in Request, Analyze(r)
  PROVE  IInv'
<1> DEFINE s == h[r].of
           x == [h[r] EXCEPT !.pc = "upsert", !.high = evidence[s]]
<1>1. h[r] \in Handler /\ JobInv(h[r]) /\ h[r].pc = "analyze"
  BY DEF IInv, Analyze
<1>2. s \in User /\ evidence[s] \in 1..MaxEvidence /\ evidence[s] \in 0..MaxEvidence
  BY <1>1 DEF IInv, TablesInv, JobInv, JobTyped, InRun
<1>3. h' = [h EXCEPT ![r] = x]
  BY <1>1 DEF IInv, Analyze
<1>4. /\ x \in Handler /\ x.pc = "upsert" /\ x.low = h[r].low /\ x.of = s
      /\ x.high = evidence[s] /\ x.alone = h[r].alone
      /\ x.job = h[r].job /\ x.by = h[r].by /\ x.todo = h[r].todo /\ x.out = h[r].out
      /\ x.asked = h[r].asked
  <2>1. "upsert" \in Running
    BY DEF Running, InRun
  <2> QED  BY <1>1, <1>2, <2>1 DEF Handler
<1> HIDE DEF x
<1>5. JobInv(x)
  <2>1. JobTyped(x)
    BY <1>1, <1>2, <1>4 DEF JobInv, JobTyped, JobRead, InRun, Past
  <2>2. JobGranted(x)
    BY <1>1, <1>4 DEF JobInv, JobGranted, InRun
  <2>3. JobRead(x)
    BY <1>1, <1>2, <1>4 DEF JobInv, JobRead, InRun
  <2> QED  BY <2>1, <2>2, <2>3 DEF JobInv
<1>6. UNCHANGED <<records, insights, rewards, brief, shown>>
  BY DEF Analyze
<1>7. brief' \in [User -> Tutor \cup {NoUser}] /\ shown' \subseteq everMapped
  BY <1>6 DEF IInv, TablesInv, TutorSeesOwn
<1> QED  BY <1>1, <1>3, <1>4, <1>5, <1>6, <1>7, QuietMove DEF Past, InRun, Stored

(* What a job that goes on within its run holds. *)
LEMMA OnwardFacts ==
  ASSUME IInv, NEW r \in Request, NEW pc \in {"log", "gami", "row"},
         h[r].pc \in {"upsert", "log", "gami"}
  PROVE  LET x == [h[r] EXCEPT !.pc = pc]
         IN  /\ x \in Handler /\ JobInv(x)
             /\ x.pc = pc /\ x.of = h[r].of /\ x.low = h[r].low
             /\ x.alone = h[r].alone /\ x.asked = h[r].asked
<1> DEFINE x == [h[r] EXCEPT !.pc = pc]
<1>1. h[r] \in Handler /\ JobInv(h[r])
  BY DEF IInv
<1>2. /\ x \in Handler /\ x.pc = pc /\ x.low = h[r].low /\ x.of = h[r].of
      /\ x.high = h[r].high /\ x.alone = h[r].alone
      /\ x.job = h[r].job /\ x.by = h[r].by /\ x.todo = h[r].todo /\ x.out = h[r].out
      /\ x.asked = h[r].asked
  <2>1. pc \in Running
    BY DEF Running, InRun
  <2> QED  BY <1>1, <2>1 DEF Handler
<1> HIDE DEF x
<1>3. JobTyped(x)
  BY <1>1, <1>2 DEF JobInv, JobTyped, InRun, Past
<1>4. JobGranted(x)
  BY <1>1, <1>2 DEF JobInv, JobGranted, InRun
<1>5. JobRead(x)
  BY <1>1, <1>2 DEF JobInv, JobRead, InRun
<1>6. JobInv(x)
  BY <1>3, <1>4, <1>5 DEF JobInv
<1> QED  BY <1>2, <1>6 DEF x

LEMMA UpsertKeepsIInv ==
  ASSUME IInv, NEW r \in Request, Upsert(r)
  PROVE  IInv'
<1> DEFINE s == h[r].of
<1>0. PICK x : x = [h[r] EXCEPT !.pc = "log"]
  OBVIOUS
<1>1. h[r] \in Handler /\ JobInv(h[r]) /\ h[r].pc = "upsert"
  BY DEF IInv, Upsert
<1>2. /\ x \in Handler /\ JobInv(x) /\ x.pc = "log" /\ x.of = s /\ x.low = h[r].low
      /\ x.alone = h[r].alone /\ x.asked = h[r].asked
  BY <1>0, <1>1, OnwardFacts
<1>3. s \in User /\ h[r].low \in 1..MaxEvidence
  BY <1>1 DEF JobInv, JobTyped, InRun, Handler
<1>4. /\ h' = [h EXCEPT ![r] = x] /\ insight' = [insight EXCEPT ![s] = h[r].low]
      /\ aged' = aged \ {s}
      /\ UNCHANGED <<records, trend, torn, rewards, brief, shown>>
  BY <1>0, <1>1 DEF IInv, Upsert, Goto
<1>5. Grow
  <2>1. insight' \in [User -> 0..MaxEvidence] /\ aged' \subseteq User
    BY <1>3, <1>4 DEF IInv, TablesInv
  <2> QED  BY <1>4, <2>1 DEF Grow, IInv, TablesInv, records, rewards
<1>6. JobInv(x)'
  BY <1>2, <1>5, JobStable DEF IInv
<1>7. FreshInv'
  <2>1. ASSUME NEW o \in Request, h'[o].alone, h'[o].pc \in Past \cup {"reselect"}
        PROVE  /\ h[o].alone /\ h[o].pc \in Past \cup {"reselect"}
               /\ h'[o].of = h[o].of /\ h'[o].asked = h[o].asked
    BY <1>1, <1>2, <1>4, <2>1 DEF IInv, Past, InRun
  <2>2. ASSUME NEW q \in Request, h'[q].pc \in Past
        PROVE  h[q].pc \in Past /\ h'[q].of = h[q].of /\ h'[q].low = h[q].low
    BY <1>1, <1>2, <1>4, <2>2 DEF IInv, Past, InRun
  <2>3. ASSUME NEW o \in Request, h'[o].alone, h'[o].pc \in Past \cup {"reselect"},
               NEW q \in Request, h'[q].pc \in Past, h'[q].of = h'[o].of
        PROVE  h'[q].low >= h'[o].asked
    BY <2>1, <2>2, <2>3 DEF IInv, FreshInv
  <2>4. ASSUME NEW o \in Request, h'[o].alone, h'[o].pc \in Stored
        PROVE  insight'[h'[o].of] >= h'[o].asked
    <3>1. h'[o].pc \in Past \cup {"reselect"}
      BY <2>4 DEF Stored, Past, InRun
    <3>2. CASE h[o].of = s
      <4>1. h[r].low >= h[o].asked
        BY <1>1, <2>1, <2>4, <3>1, <3>2 DEF IInv, FreshInv, Past, InRun
      <4> QED  BY <1>3, <1>4, <2>1, <2>4, <3>1, <3>2, <4>1 DEF IInv, TablesInv
    <3>3. CASE h[o].of # s
      <4>1. o # r /\ h[o].pc \in Stored
        BY <1>4, <2>4, <3>3 DEF IInv
      <4>2. insight[h[o].of] >= h[o].asked
        BY <2>1, <2>4, <3>1, <4>1 DEF IInv, FreshInv
      <4> QED  BY <1>4, <2>1, <2>4, <3>1, <3>3, <4>2 DEF IInv, TablesInv
    <3> QED  BY <3>2, <3>3
  <2> QED  BY <2>3, <2>4 DEF FreshInv
<1>8. InsightLogged'
  <2>1. ASSUME NEW u \in User, insight'[u] # 0
        PROVE  \/ insight'[u] \in trend'[u]
               \/ \E q \in Request : h'[q].pc = "log" /\ h'[q].of = u /\ h'[q].low = insight'[u]
               \/ u \in torn'
    <3>1. CASE u = s
      BY <1>2, <1>3, <1>4, <3>1 DEF IInv, TablesInv
    <3>2. CASE u # s
      <4>1. insight'[u] = insight[u]
        BY <1>4, <3>2 DEF IInv, TablesInv
      <4>2. \A q \in Request : h[q].pc = "log" => h'[q] = h[q]
        BY <1>1, <1>4 DEF IInv
      <4> QED  BY <1>4, <2>1, <4>1, <4>2 DEF IInv, InsightLogged
    <3> QED  BY <3>1, <3>2
  <2> QED  BY <2>1 DEF InsightLogged
<1>9. StreakBacked'
  BY <1>4 DEF IInv, StreakBacked, rewards
<1> QED  BY <1>2, <1>4, <1>5, <1>6, <1>7, <1>8, <1>9, WriteMove

LEMMA LogKeepsIInv ==
  ASSUME IInv, NEW r \in Request, Log(r)
  PROVE  IInv'
<1> DEFINE s == h[r].of
<1>0. PICK x : x = [h[r] EXCEPT !.pc = "gami"]
  OBVIOUS
<1>1. h[r] \in Handler /\ JobInv(h[r]) /\ h[r].pc = "log"
  BY DEF IInv, Log
<1>2. /\ x \in Handler /\ JobInv(x) /\ x.pc = "gami" /\ x.of = s /\ x.low = h[r].low
      /\ x.alone = h[r].alone /\ x.asked = h[r].asked
  BY <1>0, <1>1, OnwardFacts
<1>3. s \in User /\ h[r].low \in 1..MaxEvidence
  BY <1>1 DEF JobInv, JobTyped, InRun, Handler
<1>4. /\ h' = [h EXCEPT ![r] = x] /\ trend' = [trend EXCEPT ![s] = @ \cup {h[r].low}]
      /\ UNCHANGED <<records, insight, aged, torn, rewards, brief, shown>>
  BY <1>0, <1>1 DEF IInv, Log, Goto
<1>5. trend' \in [User -> SUBSET (1..MaxEvidence)]
  BY <1>3, <1>4 DEF IInv, TablesInv
<1>6. Grow
  BY <1>4, <1>5 DEF Grow, IInv, TablesInv, records, rewards
<1>7. JobInv(x)'
  BY <1>2, <1>6, JobStable DEF IInv
<1>8. FreshInv'
  BY <1>1, <1>2, <1>4, FreshMove DEF Past, InRun, Stored
<1>9. InsightLogged'
  <2>1. ASSUME NEW u \in User, insight[u] # 0
        PROVE  \/ insight[u] \in trend'[u]
               \/ \E q \in Request : h'[q].pc = "log" /\ h'[q].of = u /\ h'[q].low = insight[u]
               \/ u \in torn
    <3>1. trend[u] \subseteq trend'[u] /\ (u = s => h[r].low \in trend'[u])
      BY <1>3, <1>4 DEF IInv, TablesInv
    <3>2. CASE insight[u] \in trend[u] \/ u \in torn
      BY <3>1, <3>2
    <3>3. ASSUME NEW q \in Request,
                 h[q].pc = "log" /\ h[q].of = u /\ h[q].low = insight[u]
          PROVE  \/ insight[u] \in trend'[u]
                 \/ h'[q].pc = "log" /\ h'[q].of = u /\ h'[q].low = insight[u]
      BY <1>4, <3>1, <3>3 DEF IInv
    <3> QED  BY <2>1, <3>2, <3>3 DEF IInv, InsightLogged
  <2> QED  BY <1>4, <2>1 DEF InsightLogged
<1>10. StreakBacked'
  BY <1>4 DEF IInv, StreakBacked, rewards
<1> QED  BY <1>2, <1>4, <1>6, <1>7, <1>8, <1>9, <1>10, WriteMove

-----------------------------------------------------------------------------
(* The run: the streak and the badges. *)

(* A streak computed from a row that is backed claims at most one more run,  *)
(* and that only for records with study time.                                *)
LEMMA ScoredFacts ==
  ASSUME IInv, NEW r \in Request, h[r].pc \in {"gami", "row"}, NEW row \in GamiRow,
         row.streak <= counted[h[r].of]
  PROVE  /\ Scored(r, row) \in Handler /\ JobInv(Scored(r, row))
         /\ Scored(r, row).pc = "update" /\ Scored(r, row).of = h[r].of
         /\ Scored(r, row).low = h[r].low /\ Scored(r, row).alone = h[r].alone
         /\ Scored(r, row).asked = h[r].asked
<1> DEFINE streak == NewStreak(row, h[r].high)
           x == [h[r] EXCEPT !.pc = "update", !.streak = streak]
<1>1. h[r] \in Handler /\ JobInv(h[r])
  BY DEF IInv
<1>2. h[r].of \in User /\ counted[h[r].of] \in Nat /\ row.streak \in Nat
  BY <1>1 DEF JobInv, JobTyped, InRun, IInv, TablesInv, GamiRow
<1>3. /\ streak \in Nat
      /\ streak <= counted[h[r].of] + (IF h[r].high \in Studied THEN 1 ELSE 0)
  BY <1>2 DEF NewStreak
<1>4. "update" \in Running
  BY DEF Running, InRun
<1> HIDE DEF streak
<1>5. /\ x \in Handler /\ x.pc = "update" /\ x.low = h[r].low /\ x.of = h[r].of
      /\ x.high = h[r].high /\ x.alone = h[r].alone /\ x.streak = streak
      /\ x.job = h[r].job /\ x.by = h[r].by /\ x.todo = h[r].todo /\ x.out = h[r].out
      /\ x.asked = h[r].asked
  BY <1>1, <1>3, <1>4 DEF Handler
<1> HIDE DEF x
<1>6. JobTyped(x)
  BY <1>1, <1>5 DEF JobInv, JobTyped, InRun, Past
<1>7. JobGranted(x)
  BY <1>1, <1>5 DEF JobInv, JobGranted, InRun
<1>8. JobRead(x)
  BY <1>1, <1>3, <1>5 DEF JobInv, JobRead, InRun
<1>9. Scored(r, row) = x
  BY DEF Scored, x, streak
<1> QED  BY <1>5, <1>6, <1>7, <1>8, <1>9 DEF JobInv

LEMMA GamiSelectKeepsIInv ==
  ASSUME IInv, NEW r \in Request, GamiSelect(r)
  PROVE  IInv'
<1> DEFINE row == gami[h[r].of]
<1>1. h[r] \in Handler /\ JobInv(h[r]) /\ h[r].pc = "gami"
  BY DEF IInv, GamiSelect
<1>2. h[r].of \in User /\ row \in GamiRow \cup {NoGami}
  BY <1>1 DEF JobInv, JobTyped, InRun, IInv, TablesInv
<1>3. UNCHANGED <<records, insights, rewards, brief, shown>>
  BY DEF GamiSelect
<1>4. brief' \in [User -> Tutor \cup {NoUser}] /\ shown' \subseteq everMapped
  BY <1>3 DEF IInv, TablesInv, TutorSeesOwn
<1>5. CASE row = NoGami
  <2>1. PICK x : x = [h[r] EXCEPT !.pc = "row"]
    OBVIOUS
  <2>2. h' = [h EXCEPT ![r] = x]
    BY <1>5, <2>1 DEF GamiSelect, IInv
  <2>3. /\ x \in Handler /\ JobInv(x) /\ x.pc = "row" /\ x.of = h[r].of
        /\ x.low = h[r].low /\ x.alone = h[r].alone /\ x.asked = h[r].asked
    BY <1>1, <2>1, OnwardFacts
  <2> QED  BY <1>1, <1>3, <1>4, <2>2, <2>3, QuietMove DEF Past, InRun, Stored
<1>6. CASE row # NoGami
  <2>1. row \in GamiRow /\ row.streak <= counted[h[r].of]
    BY <1>2, <1>6 DEF IInv, StreakBacked
  <2>2. h' = [h EXCEPT ![r] = Scored(r, row)]
    BY <1>6 DEF GamiSelect, IInv
  <2>3. PICK x : x = Scored(r, row)
    OBVIOUS
  <2>4. /\ x \in Handler /\ JobInv(x) /\ x.pc = "update" /\ x.of = h[r].of
        /\ x.low = h[r].low /\ x.alone = h[r].alone /\ x.asked = h[r].asked
    BY <1>1, <2>1, <2>3, ScoredFacts
  <2> QED  BY <1>1, <1>3, <1>4, <2>2, <2>3, <2>4, QuietMove DEF Past, InRun, Stored
<1> QED  BY <1>5, <1>6

LEMMA GamiInsertKeepsIInv ==
  ASSUME IInv, NEW r \in Request, GamiInsert(r)
  PROVE  IInv'
<1> DEFINE s == h[r].of
<1>1. h[r] \in Handler /\ JobInv(h[r]) /\ h[r].pc = "row"
  BY DEF IInv, GamiInsert
<1>2. s \in User /\ counted[s] \in Nat /\ NewRow \in GamiRow /\ NewRow.streak = 0
  BY <1>1 DEF JobInv, JobTyped, InRun, IInv, TablesInv, GamiRow, NewRow
<1>3. PICK x : x = Scored(r, NewRow)
  OBVIOUS
<1>4. /\ h' = [h EXCEPT ![r] = x] /\ gami' = [gami EXCEPT ![s] = NewRow]
      /\ UNCHANGED <<records, insights, badges, counted, brief, shown>>
  BY <1>3 DEF GamiInsert
<1>5. /\ x \in Handler /\ JobInv(x) /\ x.pc = "update" /\ x.of = s
      /\ x.low = h[r].low /\ x.alone = h[r].alone /\ x.asked = h[r].asked
  BY <1>1, <1>2, <1>3, ScoredFacts
<1>6. gami' \in [User -> GamiRow \cup {NoGami}]
  BY <1>2, <1>4 DEF IInv, TablesInv
<1>7. Grow
  BY <1>4, <1>6 DEF Grow, IInv, TablesInv, records, insights
<1>8. JobInv(x)'
  BY <1>5, <1>7, JobStable DEF IInv
<1>9. insight' = insight /\ trend' = trend /\ torn' = torn
  BY <1>4 DEF insights
<1>10. FreshInv' /\ InsightLogged'
  BY <1>1, <1>4, <1>5, <1>9, FreshMove, LoggedMove DEF Past, InRun, Stored
<1>11. StreakBacked'
  BY <1>2, <1>4 DEF IInv, TablesInv, StreakBacked
<1> QED  BY <1>4, <1>5, <1>7, <1>8, <1>10, <1>11, WriteMove

LEMMA LeaveFacts ==
  ASSUME IInv, NEW r \in Request, NEW pc \in {"next", "summary", "reselect"},
         h[r].pc \in InRun,
         pc = "next" => h[r].job \in Loops,
         pc = "summary" => h[r].job = "copilot",
         pc = "reselect" => h[r].job \in Single
  PROVE  /\ Leave(r, pc) \in Handler /\ JobInv(Leave(r, pc)) /\ Leave(r, pc).pc = pc
         /\ Leave(r, pc).alone => /\ h[r].alone /\ pc = "reselect"
                                  /\ Leave(r, pc).of = h[r].of
                                  /\ Leave(r, pc).asked = h[r].asked
<1> DEFINE alone == h[r].alone /\ pc = "reselect"
           x == [h[r] EXCEPT !.pc = pc, !.low = 0, !.high = 0, !.streak = 0,
                             !.due = {}, !.alone = alone]
<1>1. h[r] \in Handler /\ JobInv(h[r])
  BY DEF IInv
<1>2. pc \in Running /\ alone \in BOOLEAN /\ {} \in SUBSET Badge /\ 0 \in 0..MaxEvidence
  BY DEF Running
<1>3. Leave(r, pc) = x
  BY DEF Leave
<1> HIDE DEF alone
<1>4. /\ x \in Handler /\ x.pc = pc /\ x.of = h[r].of /\ x.alone = alone
      /\ x.job = h[r].job /\ x.by = h[r].by /\ x.todo = h[r].todo /\ x.out = h[r].out
      /\ x.asked = h[r].asked
  BY <1>1, <1>2 DEF Handler
<1> HIDE DEF x
<1>5. JobTyped(x)
  BY <1>1, <1>4 DEF JobInv, JobTyped, InRun, alone
<1>6. JobGranted(x)
  BY <1>1, <1>4 DEF JobInv, JobGranted, InRun
<1>7. JobRead(x)
  BY <1>1, <1>4 DEF JobInv, JobRead, InRun
<1> QED  BY <1>3, <1>4, <1>5, <1>6, <1>7 DEF JobInv, alone

LEMMA ReturnFacts ==
  ASSUME IInv, NEW r \in Request, h[r].pc \in InRun
  PROVE  /\ Return(r) \in Handler /\ JobInv(Return(r)) /\ Return(r).pc \notin Past
         /\ Return(r).alone => /\ h[r].alone /\ Return(r).of = h[r].of
                               /\ Return(r).asked = h[r].asked
<1>1. h[r].job \in Single \cup Loops
  BY DEF IInv, Handler, Job, Single, Loops
<1>2. /\ AfterRun(h[r].job) \in {"next", "summary", "reselect"}
      /\ AfterRun(h[r].job) = "next" => h[r].job \in Loops
      /\ AfterRun(h[r].job) = "summary" => h[r].job = "copilot"
      /\ AfterRun(h[r].job) = "reselect" => h[r].job \in Single
  BY <1>1 DEF AfterRun, Single, Loops
<1> QED  BY <1>2, LeaveFacts DEF Return, Past, InRun

LEMMA GamiUpdateKeepsIInv ==
  ASSUME IInv, NEW r \in Request, GamiUpdate(r)
  PROVE  IInv'
<1> DEFINE s   == h[r].of
           due == Due(h[r].streak, h[r].high)
<1>1. h[r] \in Handler /\ JobInv(h[r]) /\ h[r].pc = "update"
  BY DEF IInv, GamiUpdate
<1>2. /\ s \in User /\ counted[s] \in Nat /\ h[r].streak \in Nat
      /\ h[r].high \in 1..MaxEvidence
  <2>1. h[r].low \in 1..h[r].high /\ h[r].high \in 0..MaxEvidence
    BY <1>1 DEF JobInv, JobTyped, Handler
  <2> QED  BY <1>1, <2>1 DEF JobInv, JobTyped, InRun, IInv, TablesInv, Handler
<1>3. PICK x : x = IF due = {} THEN Return(r)
                   ELSE [h[r] EXCEPT !.pc = "award", !.due = due]
  OBVIOUS
<1>4. /\ h' = [h EXCEPT ![r] = x]
      /\ gami' = [gami EXCEPT ![s] = [streak |-> h[r].streak, last |-> Today]]
      /\ counted' = [counted EXCEPT ![s] = IF h[r].high \in Studied THEN @ + 1 ELSE @]
      /\ UNCHANGED <<records, insights, badges, brief, shown>>
  BY <1>3 DEF GamiUpdate, IInv
<1>5. due \in SUBSET Badge /\ ("streak_7" \in due => h[r].streak >= 7)
  BY <1>2 DEF Due, Badge
<1>6. /\ counted' \in [User -> Nat] /\ h[r].streak <= counted'[s]
      /\ \A u \in User : counted[u] <= counted'[u] /\ (u # s => counted'[u] = counted[u])
  BY <1>1, <1>2, <1>4 DEF JobInv, JobRead, IInv, TablesInv
<1>7. gami' \in [User -> GamiRow \cup {NoGami}]
  <2>1. Today \in Nat
    BY DEF IInv, TablesInv, Today
  <2> QED  BY <1>2, <1>4, <2>1 DEF IInv, TablesInv, GamiRow
<1>8. Grow
  BY <1>4, <1>6, <1>7 DEF Grow, IInv, TablesInv, records, insights
<1> HIDE DEF due
<1>9. /\ x \in Handler /\ JobInv(x)'
      /\ x.pc \in Past => x.of = s /\ x.low = h[r].low
      /\ x.alone => /\ h[r].alone /\ x.of = s /\ x.asked = h[r].asked
  <2>1. CASE due = {}
    BY <1>1, <1>3, <1>8, <2>1, ReturnFacts, JobStable DEF IInv, InRun
  <2>2. CASE due # {}
    <3>1. "award" \in Running
      BY DEF Running, InRun
    <3>2. /\ x \in Handler /\ x.pc = "award" /\ x.of = s /\ x.alone = h[r].alone
          /\ x.low = h[r].low /\ x.high = h[r].high /\ x.due = due
          /\ x.job = h[r].job /\ x.by = h[r].by /\ x.todo = h[r].todo
          /\ x.out = h[r].out /\ x.asked = h[r].asked
      BY <1>1, <1>3, <1>5, <2>2, <3>1 DEF Handler
    <3>3. JobTyped(x)'
      BY <1>1, <2>2, <3>2 DEF JobInv, JobTyped, InRun, Past
    <3>4. JobGranted(x)'
      BY <1>1, <1>8, <3>2 DEF JobInv, JobGranted, InRun, Grow
    <3>5. JobRead(x)'
      <4>1. evidence' = evidence
        BY <1>4 DEF records
      <4>2. "streak_7" \in x.due => counted'[x.of] >= 7
        BY <1>2, <1>5, <1>6, <3>2
      <4> QED  BY <1>1, <3>2, <4>1, <4>2 DEF JobInv, JobRead, InRun
    <3> QED  BY <3>2, <3>3, <3>4, <3>5 DEF JobInv
  <2> QED  BY <2>1, <2>2
<1>10. insight' = insight /\ trend' = trend /\ torn' = torn
  BY <1>4 DEF insights
<1>11. FreshInv' /\ InsightLogged'
  BY <1>1, <1>4, <1>9, <1>10, FreshMove, LoggedMove DEF Past, InRun, Stored
<1>12. StreakBacked'
  <2>1. ASSUME NEW u \in User, gami'[u] # NoGami
        PROVE  gami'[u].streak <= counted'[u]
    <3>1. CASE u = s
      BY <1>2, <1>4, <1>6, <3>1 DEF IInv, TablesInv
    <3>2. CASE u # s
      BY <1>2, <1>4, <1>6, <2>1, <3>2 DEF IInv, TablesInv, StreakBacked
    <3> QED  BY <3>1, <3>2
  <2>2. ASSUME NEW u \in User, "streak_7" \in badges'[u]
        PROVE  counted'[u] >= 7
    BY <1>4, <1>6, <2>2 DEF IInv, TablesInv, StreakBacked
  <2> QED  BY <2>1, <2>2 DEF StreakBacked
<1> QED  BY <1>4, <1>8, <1>9, <1>11, <1>12, WriteMove

LEMMA AwardKeepsIInv ==
  ASSUME IInv, NEW r \in Request, Award(r)
  PROVE  IInv'
<1> DEFINE s == h[r].of
<1>1. h[r] \in Handler /\ JobInv(h[r]) /\ h[r].pc = "award"
  BY DEF IInv, Award
<1>2. s \in User /\ counted[s] \in Nat /\ h[r].due \subseteq Badge
  BY <1>1 DEF JobInv, JobTyped, InRun, IInv, TablesInv, Handler
<1>3. PICK b \in h[r].due :
        /\ badges' = [badges EXCEPT ![s] = @ \cup {b}]
        /\ h' = [h EXCEPT ![r] = IF h[r].due = {b} THEN Return(r)
                                 ELSE [h[r] EXCEPT !.due = h[r].due \ {b}]]
  BY DEF Award, IInv
<1>4. PICK x : x = IF h[r].due = {b} THEN Return(r)
                   ELSE [h[r] EXCEPT !.due = h[r].due \ {b}]
  OBVIOUS
<1>5. /\ h' = [h EXCEPT ![r] = x]
      /\ UNCHANGED <<records, insights, gami, counted, brief, shown>>
  <2>1. h' = [h EXCEPT ![r] = x]
    <3>1. CASE h[r].due = {b}
      BY <1>3, <1>4, <3>1
    <3>2. CASE h[r].due # {b}
      BY <1>3, <1>4, <3>2
    <3> QED  BY <3>1, <3>2
  <2> QED  BY <2>1 DEF Award
<1>6. badges' \in [User -> SUBSET Badge]
  BY <1>2, <1>3 DEF IInv, TablesInv
<1>7. Grow
  BY <1>5, <1>6 DEF Grow, IInv, TablesInv, records, insights
<1>8. /\ x \in Handler /\ JobInv(x)
      /\ x.pc \in Past => x.of = s /\ x.low = h[r].low
      /\ x.alone => /\ h[r].alone /\ x.of = s /\ x.asked = h[r].asked
  <2>1. CASE h[r].due = {b}
    BY <1>1, <1>4, <2>1, ReturnFacts DEF InRun
  <2>2. CASE h[r].due # {b}
    <3>1. /\ x \in Handler /\ x.pc = "award" /\ x.of = s /\ x.alone = h[r].alone
          /\ x.low = h[r].low /\ x.high = h[r].high /\ x.due = h[r].due \ {b}
          /\ x.job = h[r].job /\ x.by = h[r].by /\ x.todo = h[r].todo
          /\ x.out = h[r].out /\ x.asked = h[r].asked
      BY <1>1, <1>2, <1>4, <2>2 DEF Handler
    <3>2. JobTyped(x)
      BY <1>1, <1>3, <2>2, <3>1 DEF JobInv, JobTyped, InRun, Past
    <3>3. JobGranted(x)
      BY <1>1, <3>1 DEF JobInv, JobGranted, InRun
    <3>4. JobRead(x)
      BY <1>1, <3>1 DEF JobInv, JobRead, InRun
    <3> QED  BY <3>1, <3>2, <3>3, <3>4 DEF JobInv
  <2> QED  BY <2>1, <2>2
<1>9. JobInv(x)'
  BY <1>7, <1>8, JobStable DEF IInv
<1>10. insight' = insight /\ trend' = trend /\ torn' = torn
  BY <1>5 DEF insights
<1>11. FreshInv' /\ InsightLogged'
  BY <1>1, <1>5, <1>8, <1>10, FreshMove, LoggedMove DEF Past, InRun, Stored
<1>12. StreakBacked'
  <2>1. b = "streak_7" => counted[s] >= 7
    BY <1>1, <1>3 DEF JobInv, JobRead
  <2>2. ASSUME NEW u \in User, "streak_7" \in badges'[u]
        PROVE  counted[u] >= 7
    <3>1. "streak_7" \in badges[u] \/ (u = s /\ b = "streak_7")
      BY <1>2, <1>3, <2>2 DEF IInv, TablesInv
    <3> QED  BY <2>1, <3>1 DEF IInv, StreakBacked
  <2> QED  BY <1>5, <2>2 DEF IInv, StreakBacked
<1> QED  BY <1>5, <1>7, <1>8, <1>9, <1>11, <1>12, WriteMove

LEMMA FailKeepsIInv ==
  ASSUME IInv, NEW r \in Request, Fail(r)
  PROVE  IInv'
<1> DEFINE s == h[r].of
           on == h[r].job = "all" /\ h[r].pc \in InRun
<1>1. h[r] \in Handler /\ JobInv(h[r]) /\ h[r].pc \in Running
  BY DEF IInv, Fail
<1>2. PICK x : x = IF on THEN Leave(r, "next") ELSE Idle
  OBVIOUS
<1>3. /\ torn' = IF h[r].pc = "log" THEN torn \cup {s} ELSE torn
      /\ h' = [h EXCEPT ![r] = x]
      /\ UNCHANGED <<records, insight, aged, trend, rewards, brief, shown>>
  BY <1>2 DEF Fail
<1>4. x \in Handler /\ JobInv(x) /\ x.pc \in {"next", "idle"} /\ ~x.alone
  <2>1. CASE on
    BY <1>2, <2>1, LeaveFacts DEF Loops
  <2>2. CASE ~on
    BY <1>2, <2>2, IdleFacts
  <2> QED  BY <2>1, <2>2
<1>5. torn' \subseteq User
  BY <1>1, <1>3 DEF JobInv, JobTyped, InRun, IInv, TablesInv
<1>6. Grow
  BY <1>3, <1>5 DEF Grow, IInv, TablesInv, records, rewards
<1>7. JobInv(x)'
  BY <1>4, <1>6, JobStable DEF IInv
<1>8. FreshInv'
  BY <1>3, <1>4, FreshMove DEF Past, InRun
<1>9. InsightLogged'
  <2>1. ASSUME NEW u \in User, insight[u] # 0
        PROVE  \/ insight[u] \in trend[u]
               \/ \E q \in Request : h'[q].pc = "log" /\ h'[q].of = u /\ h'[q].low = insight[u]
               \/ u \in torn'
    <3>1. CASE insight[u] \in trend[u] \/ u \in torn
      BY <1>3, <3>1
    <3>2. ASSUME NEW q \in Request,
                 h[q].pc = "log" /\ h[q].of = u /\ h[q].low = insight[u]
          PROVE  \/ h'[q].pc = "log" /\ h'[q].of = u /\ h'[q].low = insight[u]
                 \/ u \in torn'
      BY <1>3, <3>2 DEF IInv
    <3> QED  BY <2>1, <3>1, <3>2 DEF IInv, InsightLogged
  <2> QED  BY <1>3, <2>1 DEF InsightLogged
<1>10. StreakBacked'
  BY <1>3 DEF IInv, StreakBacked, rewards
<1> QED  BY <1>3, <1>4, <1>6, <1>7, <1>8, <1>9, <1>10, WriteMove

-----------------------------------------------------------------------------
(* The outside. *)

LEMMA OutsideKeepsIInv ==
  ASSUME IInv, Grow, UNCHANGED <<insight, trend, torn, rewards, h, shown>>
  PROVE  IInv'
<1>1. \A q \in Request : JobInv(h[q])'
  <2>1. ASSUME NEW q \in Request PROVE JobInv(h[q])'
    <3>1. h[q] \in Handler /\ JobInv(h[q]) /\ h'[q] = h[q] /\ TablesInv
      BY DEF IInv
    <3>2. \A y \in Handler : JobInv(y) => JobInv(y)'
      BY <3>1, JobStable
    <3> QED  BY <3>1, <3>2
  <2> QED  BY <2>1
<1>2. FreshInv' /\ InsightLogged' /\ StreakBacked'
  BY DEF IInv, FreshInv, InsightLogged, StreakBacked, rewards
<1> QED  BY <1>1, <1>2 DEF IInv, Grow, TutorSeesOwn

LEMMA WorldKeepsIInv ==
  ASSUME IInv,
         \/ \E s \in Student : NewEvidence(s)
         \/ \E s \in User : Age(s)
         \/ \E t \in Tutor, s \in Student : Assign(t, s) \/ Unassign(t, s)
         \/ HalfDay
  PROVE  IInv'
<1>1. ASSUME NEW s \in Student, NewEvidence(s) PROVE IInv'
  <2>1. /\ s \in User /\ evidence[s] \in 1..MaxEvidence /\ evidence[s] < MaxEvidence
        /\ evidence' = [evidence EXCEPT ![s] = @ + 1]
        /\ UNCHANGED <<mapped, everMapped, clock, insights, rewards, brief, h, shown>>
    BY <1>1 DEF NewEvidence, IInv, TablesInv, Student
  <2>2. /\ evidence' \in [User -> 1..MaxEvidence]
        /\ \A u \in User : evidence[u] <= evidence'[u]
    BY <2>1 DEF IInv, TablesInv
  <2>3. Grow
    BY <2>1, <2>2 DEF Grow, IInv, TablesInv, insights, rewards
  <2> QED  BY <2>1, <2>3, OutsideKeepsIInv DEF insights
<1>2. ASSUME NEW s \in User, Age(s) PROVE IInv'
  <2>1. Grow
    BY <1>2 DEF Age, Grow, IInv, TablesInv, records, rewards
  <2> QED  BY <1>2, <2>1, OutsideKeepsIInv DEF Age
<1>3. ASSUME NEW t \in Tutor, NEW s \in Student, Assign(t, s) PROVE IInv'
  <2>1. Grow
    BY <1>3 DEF Assign, Grow, IInv, TablesInv, insights, rewards
  <2> QED  BY <1>3, <2>1, OutsideKeepsIInv DEF Assign, insights
<1>4. ASSUME NEW t \in Tutor, NEW s \in Student, Unassign(t, s) PROVE IInv'
  <2>1. Grow
    BY <1>4 DEF Unassign, Grow, IInv, TablesInv, insights, rewards
  <2> QED  BY <1>4, <2>1, OutsideKeepsIInv DEF Unassign, insights
<1>5. CASE HalfDay
  <2>1. Grow
    BY <1>5 DEF HalfDay, Rows, Grow, IInv, TablesInv, rewards
  <2> QED  BY <1>5, <2>1, OutsideKeepsIInv DEF HalfDay
<1> QED  BY <1>1, <1>2, <1>3, <1>4, <1>5

-----------------------------------------------------------------------------

LEMMA NextKeepsIInv == IInv /\ [Next]_vars => IInv'
<1> SUFFICES ASSUME IInv, [Next]_vars PROVE IInv'
  OBVIOUS
<1>1. ASSUME NEW r \in Request, Step(r) PROVE IInv'
  BY <1>1, RouteKeepsIInv, LoopKeepsIInv, GatherKeepsIInv, AnalyzeKeepsIInv,
     UpsertKeepsIInv, LogKeepsIInv, GamiSelectKeepsIInv, GamiInsertKeepsIInv,
     GamiUpdateKeepsIInv, AwardKeepsIInv, FailKeepsIInv DEF Step
<1>2. ASSUME NEW r \in Request,
             \/ \E u, s \in User, job \in {"view", "refresh"} : Ask(r, u, s, job)
             \/ StartAll(r)
             \/ \E t \in Tutor : StartCopilot(r, t)
      PROVE  IInv'
  BY <1>2, AskKeepsIInv, LoopKeepsIInv DEF Single
<1>3. CASE UNCHANGED vars
  <2>1. Grow
    BY <1>3 DEF vars, Grow, IInv, TablesInv
  <2> QED  BY <1>3, <2>1, OutsideKeepsIInv DEF vars, rewards
<1> QED  BY <1>1, <1>2, <1>3, WorldKeepsIInv DEF Next

LEMMA Invariance == Spec => []IInv
BY InitIInv, NextKeepsIInv, PTL DEF Spec

(* Every statement of a run finds the student, the versions and the badges   *)
(* it needs, whatever users, jobs and records there are.                     *)
THEOREM AiTypeCorrect == Spec => []TypeOK
BY Invariance, IInvImplies, PTL

(* The current insight of a student is in the trend, or is about to be, or a *)
(* run failed exactly between the upsert and the insert.                     *)
THEOREM LoggedCorrect == Spec => []InsightLogged
BY Invariance, IInvImplies, PTL

(* However many runs of one student read and write the gamification row at   *)
(* the same time, the streak and the badge of a week stay backed by runs     *)
(* that found study time.                                                    *)
THEOREM StreakCorrect == Spec => []StreakBacked
BY Invariance, IInvImplies, PTL

(* A request whose run began with no other in progress answers with an       *)
(* insight no part of which is older than the request, even when runs that   *)
(* began later have stored theirs first or last.                             *)
THEOREM FreshCorrect == Spec => []AloneIsFresh
BY Invariance, IInvImplies, PTL

(* docs/AI.md: a tutor is only answered about students who were mapped.      *)
THEOREM OwnCorrect == Spec => []TutorSeesOwn
BY Invariance, IInvImplies, PTL

-----------------------------------------------------------------------------
(* The loop of a recomputation. *)

Going(r) == h[r].job = "all" /\ h[r].pc \in InRun \cup {"next"}

(* Another job's step leaves a job alone. *)
LEMMA OthersStand ==
  ASSUME IInv, NEW q \in Request, NEW r \in Request, q # r,
         \/ Step(q)
         \/ \E u, s \in User, job \in {"view", "refresh"} : Ask(q, u, s, job)
         \/ StartAll(q)
         \/ \E t \in Tutor : StartCopilot(q, t)
  PROVE  h'[r] = h[r]
<1>1. CASE \/ CheckMapped(q) \/ SelectInsight(q) \/ Reselect(q) \/ List(q)
           \/ NextStudent(q) \/ EndLoop(q) \/ Summary(q)
  BY <1>1 DEF IInv, CheckMapped, SelectInsight, Reselect, List, NextStudent, EndLoop,
              Summary, Goto, Answer
<1>2. CASE \/ Gather(q) \/ Analyze(q) \/ Upsert(q) \/ Log(q) \/ GamiSelect(q)
           \/ GamiInsert(q) \/ GamiUpdate(q) \/ Award(q) \/ Fail(q)
  BY <1>2 DEF IInv, Gather, Analyze, Upsert, Log, GamiSelect, GamiInsert, GamiUpdate,
              Award, Fail, Goto
<1>3. CASE \/ \E u, s \in User, job \in {"view", "refresh"} : Ask(q, u, s, job)
           \/ StartAll(q)
           \/ \E t \in Tutor : StartCopilot(q, t)
  BY <1>3 DEF IInv, Ask, StartAll, StartCopilot
<1> QED  BY <1>1, <1>2, <1>3 DEF Step

(* A recomputation that is on its way leaves it only with an empty list. *)
LEMMA StepGoesOn ==
  ASSUME IInv, NEW r \in Request, Step(r), Going(r), h'[r].pc = "idle"
  PROVE  h[r].todo = {}
<1>1. h[r] \in Handler /\ h[r].pc \in InRun \cup {"next"} /\ h \in [Request -> Handler]
  BY DEF IInv, Going
<1>2. CASE CheckMapped(r) \/ SelectInsight(r) \/ Reselect(r) \/ List(r) \/ Summary(r)
  BY <1>1, <1>2 DEF CheckMapped, SelectInsight, Reselect, List, Summary, InRun
<1>3. CASE NextStudent(r)
  BY <1>1, <1>3 DEF NextStudent, Handler
<1>4. CASE EndLoop(r)
  BY <1>4 DEF EndLoop
<1>5. CASE Gather(r) \/ Analyze(r) \/ Upsert(r) \/ Log(r)
  BY <1>1, <1>5 DEF Gather, Analyze, Upsert, Log, Goto, Handler
<1>6. CASE GamiSelect(r) \/ GamiInsert(r)
  <2>1. ASSUME NEW row PROVE Scored(r, row).pc = "update"
    BY <1>1 DEF Scored, Handler
  <2>2. CASE GamiInsert(r)
    BY <1>1, <2>1, <2>2 DEF GamiInsert
  <2>3. CASE GamiSelect(r) /\ gami[h[r].of] # NoGami
    BY <1>1, <2>1, <2>3 DEF GamiSelect
  <2>4. CASE GamiSelect(r) /\ gami[h[r].of] = NoGami
    BY <1>1, <2>4 DEF GamiSelect, Handler
  <2> QED  BY <1>6, <2>2, <2>3, <2>4
<1>7. Return(r).pc # "idle"
  <2>1. AfterRun(h[r].job) = "next"
    BY DEF Going, AfterRun
  <2> QED  BY <1>1, <2>1 DEF Return, Leave, Handler
<1>8. CASE GamiUpdate(r)
  BY <1>1, <1>7, <1>8 DEF GamiUpdate, Handler
<1>9. CASE Award(r)
  BY <1>1, <1>7, <1>9 DEF Award, Handler
<1>10. CASE Fail(r)
  <2>1. h'[r] = Leave(r, "next")
    BY <1>1, <1>10 DEF Fail, Going
  <2>2. Leave(r, "next").pc = "next"
    BY <1>1 DEF Leave, Handler
  <2> QED  BY <2>1, <2>2
<1> QED  BY <1>2, <1>3, <1>4, <1>5, <1>6, <1>8, <1>9, <1>10 DEF Step

(* One student whose run fails does not cost the others theirs. *)
THEOREM LoopCorrect == Spec => NobodySkipped
<1> DEFINE Kept(r) == Going(r) /\ h'[r].pc = "idle" => h[r].todo = {}
<1>1. IInv /\ [Next]_vars => [\A r \in Request : Kept(r)]_vars
  <2> SUFFICES ASSUME IInv, Next, NEW r \in Request, Going(r), h'[r].pc = "idle"
               PROVE  h[r].todo = {}
    OBVIOUS
  <2>1. h[r].pc # "idle"
    BY DEF Going, InRun
  <2>2. ASSUME NEW q \in Request, Step(q) PROVE h[r].todo = {}
    BY <2>1, <2>2, OthersStand, StepGoesOn
  <2>3. ASSUME NEW q \in Request,
               \/ \E u, s \in User, job \in {"view", "refresh"} : Ask(q, u, s, job)
               \/ StartAll(q)
               \/ \E t \in Tutor : StartCopilot(q, t)
        PROVE  h[r].todo = {}
    <3>1. h[q].pc = "idle"
      BY <2>3 DEF Ask, StartAll, StartCopilot
    <3> QED  BY <2>1, <2>3, <3>1, OthersStand
  <2>4. CASE \/ \E s \in Student : NewEvidence(s)
             \/ \E s \in User : Age(s)
             \/ \E t \in Tutor, s \in Student : Assign(t, s) \/ Unassign(t, s)
             \/ HalfDay
    BY <2>1, <2>4 DEF NewEvidence, Age, Assign, Unassign, HalfDay
  <2> QED  BY <2>2, <2>3, <2>4 DEF Next
<1>2. [\A r \in Request : Kept(r)]_vars
        => [\A r \in Request :
              (h[r].job = "all" /\ h[r].pc \in InRun \cup {"next"} /\ h'[r].pc = "idle")
              => h[r].todo = {}]_vars
  BY DEF Going
<1> QED  BY <1>1, <1>2, Invariance, PTL DEF Spec, NobodySkipped

=============================================================================
