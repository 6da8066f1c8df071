----------------------------- MODULE Countdown -----------------------------
(***************************************************************************)
(* The countdown of a reached goal, shown by cmd/api and ended by          *)
(* cmd/worker.  Both take its length from the environment, each when it    *)
(* starts, and from then on hold their own copy: an edit of .env reaches   *)
(* a process at its next restart, and a setting that cannot be read is     *)
(* replaced by the default without a word.                                 *)
(*                                                                         *)
(* Draw days and purchases that fail are AutoPurchaseWorker's; here a pass *)
(* over a due goal buys.  Passes take no time.                             *)
(***************************************************************************)
EXTENDS Integers

CONSTANTS
    Durations,          \* lengths the environment may ask for
    DefaultCountdown,   \* the fallback in Load: thirty seconds
    DefaultTick,        \* the fallback in Load: a minute
    MaxTime, MaxEdits   \* bounds: time, and edits of the two durations

ASSUME DurationAssumption ==
    /\ Durations \subseteq Int
    /\ {DefaultCountdown, DefaultTick, MaxTime, MaxEdits} \subseteq Nat
    /\ DefaultTick > 0

VARIABLES
    osEnv, dotenv,   \* what the environment and .env hold for each key
    secrets,         \* are both signing secrets set?
    edits,
    now,
    api, worker,     \* the processes, with what each read at its start
    goal,
    shown            \* what the tracker screen shows

countdownVars == <<osEnv, dotenv, secrets, edits, now, api, worker, goal, shown>>

Key == {"KAPOOK_COUNTDOWN_DURATION", "KAPOOK_WORKER_TICK_INTERVAL"}
Unset == "unset"
Setting == [kind : {Unset, "empty", "malformed"}] \cup [kind : {"duration"}, is : Durations]

None == [until |-> 0, length |-> 0]

CountdownTypeOK ==
    /\ {osEnv, dotenv} \subseteq [Key -> Setting]
    /\ secrets \in BOOLEAN
    /\ edits \in 0..MaxEdits
    /\ now \in 0..MaxTime
    /\ api \in [up : BOOLEAN, countdown : Durations \cup {DefaultCountdown}]
    /\ worker \in [up : BOOLEAN, countdown : Durations \cup {DefaultCountdown},
                   tick : Int, next : Int, startedAt : 0..now]
    /\ worker.up => worker.tick > 0 /\ worker.next \in now .. now + worker.tick
    /\ goal \in [stage : {"saving", "reached", "closed", "bought"}, reachedAt : 0..now]
    /\ shown \in [until : Nat, length : Durations \cup {0, DefaultCountdown}]

-----------------------------------------------------------------------------
(***************************************************************************)
(* Faults.  Each replaces the definition below whose name it starts with.  *)
(***************************************************************************)
Remaining_FromTheRead == api.countdown

Due_Strictly == goal.stage = "reached" /\ goal.reachedAt < now - worker.countdown

-----------------------------------------------------------------------------
(***************************************************************************)
(* The environment and config.Load.                                        *)
(***************************************************************************)

(* godotenv leaves alone a key the environment holds, be it empty.         *)
Lookup(key) == IF osEnv[key].kind = Unset THEN dotenv[key] ELSE osEnv[key]

getEnvDuration(key, fallback) ==
    IF Lookup(key).kind = "duration" THEN Lookup(key).is ELSE fallback

Countdown == getEnvDuration("KAPOOK_COUNTDOWN_DURATION", DefaultCountdown)
TickInterval == getEnvDuration("KAPOOK_WORKER_TICK_INTERVAL", DefaultTick)

Edit ==
    /\ edits < MaxEdits
    /\ edits' = edits + 1
    /\ \E key \in Key, setting \in Setting :
        \/ /\ osEnv' = [osEnv EXCEPT ![key] = setting]
           /\ UNCHANGED dotenv
        \/ /\ dotenv' = [dotenv EXCEPT ![key] = setting]
           /\ UNCHANGED osEnv
    /\ UNCHANGED <<secrets, now, api, worker, goal, shown>>

EditSecrets ==
    /\ secrets' = ~ secrets
    /\ UNCHANGED <<osEnv, dotenv, edits, now, api, worker, goal, shown>>

-----------------------------------------------------------------------------
(***************************************************************************)
(* The two processes.  Outside local, Load ends one without the secrets.   *)
(***************************************************************************)
StoppedApi == [up |-> FALSE, countdown |-> DefaultCountdown]
StoppedWorker == [up |-> FALSE, countdown |-> DefaultCountdown, tick |-> DefaultTick,
                  next |-> 0, startedAt |-> 0]

StartApi ==
    /\ ~ api.up
    /\ secrets
    /\ api' = [up |-> TRUE, countdown |-> Countdown]
    /\ UNCHANGED <<osEnv, dotenv, secrets, edits, now, worker, goal, shown>>

StopApi ==
    /\ api.up
    /\ api' = StoppedApi
    /\ UNCHANGED <<osEnv, dotenv, secrets, edits, now, worker, goal, shown>>

(* NewTicker panics on an interval that is not positive.                   *)
StartTicking(interval) ==
    /\ interval > 0
    /\ worker' = [up |-> TRUE, countdown |-> Countdown, tick |-> interval,
                  next |-> now + interval, startedAt |-> now]

StartWorker ==
    /\ ~ worker.up
    /\ secrets
    /\ StartTicking(TickInterval)
    /\ UNCHANGED <<osEnv, dotenv, secrets, edits, now, api, goal, shown>>

StopWorker ==
    /\ worker.up
    /\ worker' = StoppedWorker
    /\ UNCHANGED <<osEnv, dotenv, secrets, edits, now, api, goal, shown>>

(* What a pass claims: goal_reached_at <= now - countdown.                 *)
Due == goal.stage = "reached" /\ goal.reachedAt =< now - worker.countdown

RunOnce ==
    /\ worker.up
    /\ now = worker.next
    /\ worker' = [worker EXCEPT !.next = now + worker.tick]
    /\ goal' = IF Due THEN [goal EXCEPT !.stage = "bought"] ELSE goal
    /\ UNCHANGED <<osEnv, dotenv, secrets, edits, now, api, shown>>

-----------------------------------------------------------------------------
(***************************************************************************)
(* The customer.                                                           *)
(***************************************************************************)
LastDeposit ==
    /\ api.up
    /\ goal.stage = "saving"
    /\ goal' = [stage |-> "reached", reachedAt |-> now]
    /\ UNCHANGED <<osEnv, dotenv, secrets, edits, now, api, worker, shown>>

(* During the countdown a withdrawal takes everything and closes the goal. *)
WithdrawAll ==
    /\ api.up
    /\ goal.stage = "reached"
    /\ goal' = [goal EXCEPT !.stage = "closed"]
    /\ UNCHANGED <<osEnv, dotenv, secrets, edits, now, api, worker, shown>>

Remaining ==
    LET left == goal.reachedAt + api.countdown - now
    IN  IF left < 0 THEN 0 ELSE left

Snapshot ==
    /\ api.up
    /\ goal.stage = "reached"
    /\ shown' = [until |-> now + Remaining, length |-> api.countdown]
    /\ UNCHANGED <<osEnv, dotenv, secrets, edits, now, api, worker, goal>>

(* A ticker that has come due is served before time goes on.               *)
Tick ==
    /\ now < MaxTime
    /\ worker.up => now < worker.next
    /\ now' = now + 1
    /\ UNCHANGED <<osEnv, dotenv, secrets, edits, api, worker, goal, shown>>

CountdownInit ==
    /\ osEnv = [key \in Key |-> [kind |-> Unset]]
    /\ dotenv = [key \in Key |-> [kind |-> Unset]]
    /\ secrets = TRUE
    /\ edits = 0
    /\ now = 0
    /\ api = StoppedApi
    /\ worker = StoppedWorker
    /\ goal = [stage |-> "saving", reachedAt |-> 0]
    /\ shown = None

OperatorStep == Edit \/ EditSecrets \/ StartApi \/ StopApi \/ StartWorker \/ StopWorker
CustomerStep == LastDeposit \/ WithdrawAll \/ Snapshot
CountdownNext == OperatorStep \/ CustomerStep \/ RunOnce \/ Tick

CountdownSpec == CountdownInit /\ [][CountdownNext]_countdownVars

-----------------------------------------------------------------------------
(***************************************************************************)
(* Properties.                                                             *)
(***************************************************************************)
LaterOf(a, b) == IF a < b THEN b ELSE a

(* .env.example: "the countdown can sit at zero for up to a full tick",    *)
(* and no longer, however the worker's ticks fall and whenever it was      *)
(* started, as long as it runs: a goal left to a running worker is bought. *)
(* (The pass of the instant of the deposit itself may be over already.)    *)
AtZeroForLessThanATick ==
    worker.up /\ goal.stage = "reached" =>
        now < LaterOf(goal.reachedAt + worker.countdown,
                      LaterOf(goal.reachedAt, worker.startedAt) + 1) + worker.tick

Buys == goal.stage = "reached" /\ goal'.stage = "bought"

(* A purchase never comes before the time a screen gave, unless the worker *)
(* runs with a shorter countdown than the API did when it gave it.         *)
EarlyOnlyWhenProcessesDiffer ==
    [][Buys => now >= shown.until \/ worker.countdown < shown.length]_countdownVars
=============================================================================
