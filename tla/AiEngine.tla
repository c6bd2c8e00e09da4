------------------------------- MODULE AiEngine -------------------------------
(***************************************************************************)
(* The AI layer: runForStudent, runForAll and buildCopilotForTutor of      *)
(* ai/engine.js, and the routes of ai.routes.js that start them.  A run    *)
(* gathers a student's records, analyses them, and then writes five tables *)
(* in as many statements, with no transaction and no lock; the background  *)
(* timer, the admin's button and any reader of a stale insight start runs  *)
(* of the same student at the same time.  Each action is the code between  *)
(* two awaits.                                                             *)
(*                                                                         *)
(* The records (mocks, attendance, study sessions and so on) are a version *)
(* number that grows whenever what the queries of ai/data.js return has    *)
(* changed; what a run computes from them is a function of it.             *)
(***************************************************************************)
EXTENDS Naturals, FiniteSets

CONSTANTS
    User,
    Role,           \* the role of each id, "none" if it has no row in users
    Request,        \* slots for the jobs in progress at the same time
    Named,          \* the ids that requests for one student name
    MaxEvidence,    \* bound: versions of the records
    MaxClock,       \* bound: half-days
    MaxCounted,     \* bound: runs that count a study day, per student
    Studied,        \* the versions with study time in the last 14 days
    Earned,         \* the badges that each version earns, the streak aside
    NoUser,
    NoDay,          \* last_active is null
    NoGami          \* no row in gamification

Badge == {"streak_7", "exam_ready", "all_assignments", "centum_club"}

ASSUME AiAssumption ==
    /\ Role \in [User -> {"admin", "tutor", "student", "none"}]
    /\ Named \subseteq User
    /\ NoUser \notin User
    /\ MaxEvidence \in Nat \ {0}
    /\ MaxClock \in Nat
    /\ MaxCounted \in Nat
    /\ Earned \in [1..MaxEvidence -> SUBSET (Badge \ {"streak_7"})]
    /\ NoDay \notin Nat
    /\ NoGami \notin [streak: Nat, last: Nat \cup {NoDay}]

Student == {u \in User : Role[u] = "student"}
Tutor   == {u \in User : Role[u] = "tutor"}

VARIABLES
    evidence,   \* the version of each user's records
    mapped,     \* mappings: pairs <<tutor, student>>
    clock,      \* half-days since the start: even in the morning
    insight,    \* ai_insights: no part of it is older than this version; 0: no row
    aged,       \* the rows of ai_insights generated more than 6 hours ago
    trend,      \* ai_insight_history: the versions with a row
    gami,       \* gamification: streak_days and last_active
    badges,     \* badges: the codes awarded
    brief,      \* copilot_summaries of this week: the tutor_id of the row
    h,          \* the local state of each job
    counted,    \* history: how many updates have counted a study day
    torn,       \* history: students with a run that failed before its trend row
    everMapped, \* history: every mapping there has been
    shown       \* history: <<tutor, student>> whose insight has been answered

vars == <<evidence, mapped, clock, insight, aged, trend, gami, badges, brief, h,
          counted, torn, everMapped, shown>>

-----------------------------------------------------------------------------

Job == {"view", "refresh", "all", "copilot"}

InRun == {"gather", "analyze", "upsert", "log", "gami", "row", "update", "award"}

Running == InRun \cup {"mapped", "select", "list", "next", "summary", "reselect"}

Handler == [pc: Running \cup {"idle"},
            job: Job,
            by: User \cup {NoUser},         \* who asks; nobody for the timer
            of: User \cup {NoUser},         \* the student of the run
            todo: SUBSET User,              \* what is left of the loop
            out: SUBSET User,               \* copilot: the students summarised
            low: 0..MaxEvidence,            \* the version when gathering began
            high: 0..MaxEvidence,           \* the version when it ended
            streak: Nat,
            due: SUBSET Badge,
            asked: 0..MaxEvidence,          \* history: the version when it was asked
            alone: BOOLEAN]                 \* history: no other run of the student
                                            \* was in progress when it began

Idle == [pc |-> "idle", job |-> "view", by |-> NoUser, of |-> NoUser,
         todo |-> {}, out |-> {}, low |-> 0, high |-> 0, streak |-> 0,
         due |-> {}, asked |-> 0, alone |-> FALSE]

GamiRow == [streak: Nat, last: Nat \cup {NoDay}]

(* The types, and what a job holds when it gets to a statement.  *)
TypeOK ==
    /\ evidence \in [User -> 1..MaxEvidence]
    /\ mapped \subseteq Tutor \X Student
    /\ clock \in 0..MaxClock
    /\ insight \in [User -> 0..MaxEvidence]
    /\ aged \subseteq User
    /\ trend \in [User -> SUBSET (1..MaxEvidence)]
    /\ gami \in [User -> GamiRow \cup {NoGami}]
    /\ badges \in [User -> SUBSET Badge]
    /\ brief \in [User -> Tutor \cup {NoUser}]
    /\ h \in [Request -> Handler]
    /\ \A r \in Request :
        /\ h[r].pc \in InRun \cup {"mapped", "select", "summary", "reselect"} =>
               h[r].of \in User
        /\ h[r].pc \in {"upsert", "log", "gami", "row", "update", "award"} =>
               h[r].low \in 1..h[r].high
        /\ h[r].pc = "summary" => h[r].job = "copilot"
        /\ h[r].pc # "idle" /\ h[r].job = "copilot" => h[r].by \in Tutor
        /\ h[r].pc = "award" => h[r].due # {}
    /\ counted \in [User -> Nat]
    /\ torn \subseteq User
    /\ everMapped \subseteq Tutor \X Student
    /\ shown \subseteq Tutor \X User

Init ==
    /\ evidence = [u \in User |-> 1]
    /\ mapped = {}
    /\ clock = 0
    /\ insight = [u \in User |-> 0]
    /\ aged = {}
    /\ trend = [u \in User |-> {}]
    /\ gami = [u \in User |-> NoGami]
    /\ badges = [u \in User |-> {}]
    /\ brief = [u \in User |-> NoUser]
    /\ h = [r \in Request |-> Idle]
    /\ counted = [u \in User |-> 0]
    /\ torn = {}
    /\ everMapped = {}
    /\ shown = {}

records  == <<evidence, mapped, everMapped, clock>>
insights == <<insight, aged, trend, torn>>
rewards  == <<gami, badges, counted>>

Goto(r, pc) == h' = [h EXCEPT ![r].pc = pc]

(* runForStudent is left, and its local variables are gone.                  *)
Leave(r, pc) ==
    [h[r] EXCEPT !.pc = pc, !.low = 0, !.high = 0, !.streak = 0, !.due = {},
                 !.alone = @ /\ pc = "reselect"]

Room(s) == counted[s] < MaxCounted

-----------------------------------------------------------------------------
(* The routes, past authenticate and requireRole. *)

(* GET /ai/me, GET /ai/students/:id and POST /ai/students/:id/refresh.  A    *)
(* student names only itself, a tutor is asked for the mapping, an admin may *)
(* name any id.                                                              *)
Ask(r, u, s, job) ==
    /\ h[r].pc = "idle"
    /\ s \in Named
    /\ Room(s)
    /\ \/ Role[u] = "student" /\ s = u /\ job = "view"
       \/ Role[u] \in {"tutor", "admin"} /\ job \in {"view", "refresh"}
    /\ h' = [h EXCEPT ![r] = [Idle EXCEPT
                !.pc = IF Role[u] = "tutor" THEN "mapped" ELSE "select",
                !.job = job, !.by = u, !.of = s, !.asked = evidence[s]]]
    /\ UNCHANGED <<records, insights, rewards, brief, shown>>

\* Mutation of CheckMapped: areMapped is not awaited, and a promise is true.
CheckMappedPromise(r) ==
    /\ h[r].pc = "mapped"
    /\ Goto(r, "select")
    /\ UNCHANGED <<records, insights, rewards, brief, shown>>

CheckMapped(r) ==
    /\ h[r].pc = "mapped"
    /\ IF <<h[r].by, h[r].of>> \in mapped THEN Goto(r, "select")
       ELSE h' = [h EXCEPT ![r] = Idle]                        \* 403
    /\ UNCHANGED <<records, insights, rewards, brief, shown>>

(* The answer: the insight of s, or what the copilot says of the students.   *)
Answer(r, students) ==
    /\ h' = [h EXCEPT ![r] = Idle]
    /\ shown' = IF Role[h[r].by] = "tutor" THEN shown \cup ({h[r].by} \X students)
                ELSE shown

(* getInsight: the row if there is one and it is recent, else a run. *)
SelectInsight(r) ==
    LET s == h[r].of IN
    /\ h[r].pc = "select"
    /\ IF insight[s] = 0 \/ s \in aged \/ h[r].job = "refresh"
       THEN Goto(r, "gather") /\ UNCHANGED shown
       ELSE Answer(r, {s})
    /\ UNCHANGED <<records, insights, rewards, brief>>

Reselect(r) ==
    /\ h[r].pc = "reselect"
    /\ Answer(r, {h[r].of})
    /\ UNCHANGED <<records, insights, rewards, brief>>

-----------------------------------------------------------------------------
(* The loops. *)

(* runForAll, from the timer of index.js or from POST /ai/run.               *)
StartAll(r) ==
    /\ h[r].pc = "idle"
    /\ \A s \in Student : Room(s)
    /\ h' = [h EXCEPT ![r] = [Idle EXCEPT !.pc = "list", !.job = "all"]]
    /\ UNCHANGED <<records, insights, rewards, brief, shown>>

StartCopilot(r, t) ==
    /\ h[r].pc = "idle"
    /\ Role[t] = "tutor"
    /\ \A s \in Student : Room(s)
    /\ h' = [h EXCEPT ![r] = [Idle EXCEPT !.pc = "list", !.job = "copilot", !.by = t]]
    /\ UNCHANGED <<records, insights, rewards, brief, shown>>

(* The select of the loop: the students active at this moment, or mapped to  *)
(* the tutor.                                                                *)
List(r) ==
    /\ h[r].pc = "list"
    /\ \E students \in SUBSET Student :
        /\ h[r].job = "copilot" =>
               students = {s \in Student : <<h[r].by, s>> \in mapped}
        /\ h' = [h EXCEPT ![r].pc = "next", ![r].todo = students]
    /\ UNCHANGED <<records, insights, rewards, brief, shown>>

\* Mutation of NextStudent: the index of the loop is not advanced.
NextStudentAgain(r) ==
    /\ h[r].pc = "next"
    /\ \E s \in h[r].todo : h' = [h EXCEPT ![r].pc = "gather", ![r].of = s]
    /\ UNCHANGED <<records, insights, rewards, brief, shown>>

(* The head of the loop.  The queries have no order by.                      *)
NextStudent(r) ==
    /\ h[r].pc = "next"
    /\ \E s \in h[r].todo :
        h' = [h EXCEPT ![r].pc = "gather", ![r].of = s, ![r].todo = @ \ {s}]
    /\ UNCHANGED <<records, insights, rewards, brief, shown>>

EndLoop(r) ==
    /\ h[r].pc = "next"
    /\ h[r].todo = {}
    /\ IF h[r].job = "copilot" THEN Answer(r, h[r].out)
       ELSE h' = [h EXCEPT ![r] = Idle] /\ UNCHANGED shown
    /\ UNCHANGED <<records, insights, rewards, brief>>

(* insert into copilot_summaries ... on conflict (student_id, week_start) do *)
(* update: the tutor_id stays that of the first tutor.                       *)
Summary(r) ==
    LET s == h[r].of IN
    /\ h[r].pc = "summary"
    /\ brief' = [brief EXCEPT ![s] = IF @ = NoUser THEN h[r].by ELSE @]
    /\ h' = [h EXCEPT ![r].pc = "next", ![r].out = @ \cup {s}]
    /\ UNCHANGED <<records, insights, rewards, shown>>

-----------------------------------------------------------------------------
(* runForStudent *)

Rival(r) ==
    \E q \in Request \ {r} : h[q].pc \in InRun \ {"gather"} /\ h[q].of = h[r].of

(* The first query of gatherStudentData; without a row in users a later one  *)
(* throws, which is left to Fail.                                            *)
Gather(r) ==
    /\ h[r].pc = "gather"
    /\ Role[h[r].of] # "none"
    /\ h' = [h EXCEPT ![r].pc = "analyze",
                      ![r].low = evidence[h[r].of],
                      ![r].alone = ~Rival(r)]
    /\ UNCHANGED <<records, insights, rewards, brief, shown>>

(* The last query of gatherStudentData.  The provider then analyses, perhaps *)
(* with a call to a language model, whose failure is caught.                 *)
Analyze(r) ==
    /\ h[r].pc = "analyze"
    /\ h' = [h EXCEPT ![r].pc = "upsert", ![r].high = evidence[h[r].of]]
    /\ UNCHANGED <<records, insights, rewards, brief, shown>>

\* Mutation of Upsert: on conflict do nothing.
UpsertOnce(r) ==
    LET s == h[r].of IN
    /\ h[r].pc = "upsert"
    /\ insight' = [insight EXCEPT ![s] = IF @ = 0 THEN h[r].low ELSE @]
    /\ aged' = aged
    /\ Goto(r, "log")
    /\ UNCHANGED <<records, trend, torn, rewards, brief, shown>>

Upsert(r) ==
    LET s == h[r].of IN
    /\ h[r].pc = "upsert"
    /\ insight' = [insight EXCEPT ![s] = h[r].low]
    /\ aged' = aged \ {s}
    /\ Goto(r, "log")
    /\ UNCHANGED <<records, trend, torn, rewards, brief, shown>>

\* Mutation of Log: a row of the trend is inserted only when the records
\* changed during the run.
LogOnChange(r) ==
    LET s == h[r].of IN
    /\ h[r].pc = "log"
    /\ trend' = IF h[r].low = h[r].high THEN trend
                ELSE [trend EXCEPT ![s] = @ \cup {h[r].low}]
    /\ Goto(r, "gami")
    /\ UNCHANGED <<records, insight, aged, torn, rewards, brief, shown>>

Log(r) ==
    LET s == h[r].of IN
    /\ h[r].pc = "log"
    /\ trend' = [trend EXCEPT ![s] = @ \cup {h[r].low}]
    /\ Goto(r, "gami")
    /\ UNCHANGED <<records, insight, aged, torn, rewards, brief, shown>>

-----------------------------------------------------------------------------
(* updateGamification *)

Today == clock \div 2

(* Math.round((today - last) / 86400000), last being midnight: in the        *)
(* afternoon the fraction of the day rounds up.                              *)
DaysSince(last) == IF last = NoDay THEN 99 ELSE (clock + 1 - 2 * last) \div 2

\* Mutation of NewStreak: the test of data.study.recent is dropped.
NewStreakUntested(row, v) ==
    IF DaysSince(row.last) <= 1 THEN row.streak + 1 ELSE 1

NewStreak(row, v) ==
    IF v \notin Studied THEN row.streak
    ELSE IF DaysSince(row.last) <= 1 THEN row.streak + 1 ELSE 1

(* The row has been read: the streak is computed from it before the next     *)
(* await.                                                                    *)
Scored(r, row) ==
    [h[r] EXCEPT !.pc = "update", !.streak = NewStreak(row, h[r].high)]

GamiSelect(r) ==
    LET row == gami[h[r].of] IN
    /\ h[r].pc = "gami"
    /\ h' = [h EXCEPT ![r] = IF row = NoGami THEN [@ EXCEPT !.pc = "row"]
                                             ELSE Scored(r, row)]
    /\ UNCHANGED <<records, insights, rewards, brief, shown>>

(* The insert; the primary key refuses a second one, which is left to Fail.  *)
NewRow == [streak |-> 0, last |-> NoDay]

GamiInsert(r) ==
    LET s == h[r].of IN
    /\ h[r].pc = "row"
    /\ gami[s] = NoGami
    /\ gami' = [gami EXCEPT ![s] = NewRow]
    /\ h' = [h EXCEPT ![r] = Scored(r, NewRow)]
    /\ UNCHANGED <<records, insights, badges, counted, brief, shown>>

\* Mutation of AfterRun: the two loops are mixed up.
AfterRunSwapped(job) ==
    CASE job \in {"view", "refresh"} -> "reselect"
      [] job = "all"                 -> "summary"
      [] job = "copilot"             -> "next"

(* Where a job goes when its run has succeeded. *)
AfterRun(job) ==
    CASE job \in {"view", "refresh"} -> "reselect"
      [] job = "all"                 -> "next"
      [] job = "copilot"             -> "summary"

Due(streak, v) == Earned[v] \cup (IF streak >= 7 THEN {"streak_7"} ELSE {})

Return(r) == Leave(r, AfterRun(h[r].job))

GamiUpdate(r) ==
    LET s   == h[r].of
        due == Due(h[r].streak, h[r].high)
    IN
    /\ h[r].pc = "update"
    /\ gami' = [gami EXCEPT ![s] = [streak |-> h[r].streak, last |-> Today]]
    /\ counted' = [counted EXCEPT ![s] = IF h[r].high \in Studied THEN @ + 1 ELSE @]
    /\ h' = [h EXCEPT ![r] = IF due = {} THEN Return(r)
                             ELSE [@ EXCEPT !.pc = "award", !.due = due]]
    /\ UNCHANGED <<records, insights, badges, brief, shown>>

(* The awards, in the order of the code. *)
Rank == [streak_7 |-> 1, exam_ready |-> 2, all_assignments |-> 3, centum_club |-> 4]

Award(r) ==
    /\ h[r].pc = "award"
    /\ \E b \in h[r].due :
        /\ \A c \in h[r].due : Rank[b] <= Rank[c]
        /\ badges' = [badges EXCEPT ![h[r].of] = @ \cup {b}]
        /\ h' = [h EXCEPT ![r] = IF h[r].due = {b} THEN Return(r)
                                 ELSE [@ EXCEPT !.due = h[r].due \ {b}]]
    /\ UNCHANGED <<records, insights, gami, counted, brief, shown>>

-----------------------------------------------------------------------------

\* Mutation of Fail: the catch is around the loop of runForAll, not in it.
FailLoop(r) ==
    /\ h[r].pc \in Running \ {"next"}
    /\ torn' = IF h[r].pc = "log" THEN torn \cup {h[r].of} ELSE torn
    /\ h' = [h EXCEPT ![r] = Idle]
    /\ UNCHANGED <<records, insight, aged, trend, rewards, brief, shown>>

(* A statement fails.  runForAll catches it and goes on with the next        *)
(* student; everywhere else the request ends with a 500.                     *)
Fail(r) ==
    /\ h[r].pc \in Running \ {"next"}
    /\ torn' = IF h[r].pc = "log" THEN torn \cup {h[r].of} ELSE torn
    /\ h' = [h EXCEPT ![r] = IF h[r].job = "all" /\ h[r].pc \in InRun
                             THEN Leave(r, "next") ELSE Idle]
    /\ UNCHANGED <<records, insight, aged, trend, rewards, brief, shown>>

(* The outside: the teaching modules write records, an admin assigns and     *)
(* removes mappings, and time passes.                                        *)
NewEvidence(s) ==
    /\ evidence[s] < MaxEvidence
    /\ evidence' = [evidence EXCEPT ![s] = @ + 1]
    /\ UNCHANGED <<mapped, everMapped, clock, insights, rewards, brief, h, shown>>

Assign(t, s) ==
    /\ mapped' = mapped \cup {<<t, s>>}
    /\ everMapped' = everMapped \cup {<<t, s>>}
    /\ UNCHANGED <<evidence, clock, insights, rewards, brief, h, shown>>

Unassign(t, s) ==
    /\ mapped' = mapped \ {<<t, s>>}
    /\ UNCHANGED <<evidence, everMapped, clock, insights, rewards, brief, h, shown>>

Rows == {s \in User : insight[s] # 0}

Age(s) ==
    /\ s \in Rows
    /\ aged' = aged \cup {s}
    /\ UNCHANGED <<records, insight, trend, torn, rewards, brief, h, shown>>

HalfDay ==
    /\ clock < MaxClock
    /\ clock' = clock + 1
    /\ aged' = Rows
    /\ UNCHANGED <<evidence, mapped, everMapped, insight, trend, torn, rewards,
                   brief, h, shown>>

Step(r) ==
    \/ CheckMapped(r) \/ SelectInsight(r) \/ Reselect(r)
    \/ List(r) \/ NextStudent(r) \/ EndLoop(r) \/ Summary(r)
    \/ Gather(r) \/ Analyze(r) \/ Upsert(r) \/ Log(r)
    \/ GamiSelect(r) \/ GamiInsert(r) \/ GamiUpdate(r) \/ Award(r)
    \/ Fail(r)

Next ==
    \/ \E r \in Request :
        \/ Step(r)
        \/ \E u, s \in User, job \in {"view", "refresh"} : Ask(r, u, s, job)
        \/ StartAll(r)
        \/ \E t \in Tutor : StartCopilot(r, t)
    \/ \E s \in Student : NewEvidence(s)
    \/ \E s \in User : Age(s)
    \/ \E t \in Tutor, s \in Student : Assign(t, s) \/ Unassign(t, s)
    \/ HalfDay

Spec == Init /\ [][Next]_vars

(* Every statement is answered sooner or later, with a result or an error.   *)
FairSpec == Spec /\ \A r \in Request : WF_vars(Step(r))

-----------------------------------------------------------------------------
(* What the layer guarantees. *)

(* The trend chart misses nothing: the current insight of a student has its *)
(* row in the history, or the run that stored it is about to insert one, or *)
(* a run of the student failed exactly between the two statements.          *)
InsightLogged ==
    \A s \in User : insight[s] # 0 =>
        \/ insight[s] \in trend[s]
        \/ \E r \in Request : h[r].pc = "log" /\ h[r].of = s /\ h[r].low = insight[s]
        \/ s \in torn

(* A streak never claims more than the runs that found study time, however  *)
(* the reads and writes of the gamification row interleave, and neither     *)
(* does the badge of a week.                                                *)
StreakBacked ==
    \A s \in User :
        /\ gami[s] # NoGami => gami[s].streak <= counted[s]
        /\ "streak_7" \in badges[s] => counted[s] >= 7

(* Recomputing when asked: a request whose run found no other run of the    *)
(* student in progress has, when it comes to answer, an insight no part of  *)
(* which is older than the request, whatever began in the meantime.         *)
AloneIsFresh ==
    \A r \in Request :
        h[r].pc = "reselect" /\ h[r].alone => insight[h[r].of] >= h[r].asked

(* docs/AI.md: "a tutor only ever sees their assigned students".  Whatever  *)
(* a tutor has been answered is about a student who was mapped to the tutor *)
(* at some time.                                                            *)
TutorSeesOwn == shown \subseteq everMapped

(* runForAll: one student whose run fails does not cost the others theirs;  *)
(* once it has its list a recomputation ends only when nobody is left.      *)
NobodySkipped ==
    [][\A r \in Request :
        (h[r].job = "all" /\ h[r].pc \in InRun \cup {"next"} /\ h'[r].pc = "idle")
        => h[r].todo = {}]_vars

(* Every job ends, whatever fails. *)
JobEnds == \A r \in Request : h[r].pc # "idle" ~> h[r].pc = "idle"

-----------------------------------------------------------------------------
(* What the comments and documents say and the code does not do. *)

(* engine.js: "7-day study streak".  A streak counts days, so it is no      *)
(* longer than the days there have been.                                    *)
StreakCountsDays == \A s \in User : gami[s] # NoGami => gami[s].streak <= Today + 1
=============================================================================
