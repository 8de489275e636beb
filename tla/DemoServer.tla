----------------------------- MODULE DemoServer -----------------------------
(***************************************************************************)
(* The job server of src/virtual_tpu/qwen/demo_ui.py: request handlers in   *)
(* threads of their own start jobs and read them, and one thread per job    *)
(* builds an artifact bundle or runs the RTL simulator.  Jobs pass their    *)
(* settings to the builders through the environment of the process, which   *)
(* all threads share, and to the simulator through the environment and the  *)
(* build directory of a child process.                                      *)
(*                                                                          *)
(* at[j] is the statement of _run_job that job j executes next.  A read or  *)
(* write of an attribute is one step; so is a block under the lock.  A      *)
(* bundle and its summary are represented by the settings they were built   *)
(* with.                                                                    *)
(***************************************************************************)
CONSTANTS
  Job,            \* the requests ever accepted
  Key,            \* the QWEN_ variables
  Value,          \* their values
  Unset, None,
  Payload,        \* Payload[j]: the settings in the request of j, Unset where it has none
  Rtl,            \* the jobs of mode rtl; the others are of mode artifact
  Environ0,       \* the environment the server was started in
  Reader          \* handlers of GET requests

Setting == [Key -> Value \cup {Unset}]

SettingsOK ==
  /\ Unset \notin Value /\ None \notin Setting \cup Job
  /\ Payload \in [Job -> Setting] /\ Environ0 \in Setting /\ Rtl \subseteq Job

VARIABLES
  status, result, error,   \* of a job; status "none": not created yet
  active_job_id,
  at,
  env,        \* local variable of _run_job
  old,        \* local variable of _temporary_env
  run,        \* local variable of _run_job: the bundle, None if the builder raised
  environ,    \* os.environ
  run_json,   \* settings of the last bundle in the simulator's build directory
  reading,    \* reading[r]: the job whose to_json a handler evaluates
  whole,      \* whole[r]: it has returned
  body        \* body[r]: the fields it has copied

job    == <<status, result, error, at, env, old, run>>
reader == <<reading, whole, body>>
vars   == <<job, active_job_id, environ, run_json, reader>>

\* _job_env and os.environ.update: what is set in s, over e
Overlay(e, s) == [k \in Key |-> IF s[k] # Unset THEN s[k] ELSE e[k]]

Init ==
  /\ status = [j \in Job |-> "none"] /\ result = [j \in Job |-> None]
  /\ error = [j \in Job |-> FALSE] /\ at = [j \in Job |-> "new"]
  /\ env = [j \in Job |-> None] /\ old = [j \in Job |-> None] /\ run = [j \in Job |-> None]
  /\ active_job_id = None /\ environ = Environ0 /\ run_json = None
  /\ reading = [r \in Reader |-> None] /\ whole = [r \in Reader |-> FALSE]
  /\ body = [r \in Reader |-> [status |-> "none", result |-> None]]

Goto(j, here, there) == at[j] = here /\ at' = [at EXCEPT ![j] = there]

-----------------------------------------------------------------------------
(* start_job                                                                *)

Unended == {"queued", "running"}
Free == active_job_id \in Job => status[active_job_id] \notin Unended

\* Under the lock; a request while another job runs is answered 409.
Create(j) ==
  /\ Goto(j, "new", "created") /\ Free
  /\ status' = [status EXCEPT ![j] = "queued"] /\ active_job_id' = j
  /\ UNCHANGED <<result, error, env, old, run, environ, run_json, reader>>

\* thread.start(), which raises RuntimeError when the process has no thread
\* left: answered 409 although the job stays.
StartThread(j) ==
  /\ Goto(j, "created", "begin") \/ Goto(j, "created", "lost")
  /\ UNCHANGED <<status, result, error, env, old, run, active_job_id, environ, run_json, reader>>

-----------------------------------------------------------------------------
(* _run_job                                                                 *)

Begin(j) ==
  /\ Goto(j, "begin", "env")
  /\ status' = [status EXCEPT ![j] = "running"]
  /\ UNCHANGED <<result, error, env, old, run, active_job_id, environ, run_json, reader>>

\* _job_env raises for a setting that is no number.
JobEnv(j) ==
  /\ \/ /\ Goto(j, "env", IF j \in Rtl THEN "simulate" ELSE "enter")
        /\ env' = [env EXCEPT ![j] = Overlay(environ, Payload[j])]
     \/ Goto(j, "env", "fail") /\ UNCHANGED env
  /\ UNCHANGED <<status, result, error, old, run, active_job_id, environ, run_json, reader>>

\* _temporary_env before the yield
EnterEnv(j) ==
  /\ Goto(j, "enter", "build")
  /\ old' = [old EXCEPT ![j] = environ] /\ environ' = Overlay(environ, env[j])
  /\ UNCHANGED <<status, result, error, env, run, active_job_id, run_json, reader>>

\* build_qwen_infer_artifacts; it may raise.
Build(j) ==
  /\ Goto(j, "build", "leave")
  /\ \E b \in {None, environ} : run' = [run EXCEPT ![j] = b]
  /\ UNCHANGED <<status, result, error, env, old, active_job_id, environ, run_json, reader>>

\* Mutant: only variables that were set before are put back
RestoredIfSet(e, changed, saved) ==
  [k \in Key |-> IF changed[k] # Unset /\ saved[k] # Unset THEN saved[k] ELSE e[k]]
\* The finally of _temporary_env: variables that were not set are popped.
Restored(e, changed, saved) ==
  [k \in Key |-> IF changed[k] # Unset THEN saved[k] ELSE e[k]]
\* Mutant: the status is published before the bundle is summarized
LeaveEnvAnnouncing(j) ==
  /\ Goto(j, "leave", IF run[j] = None THEN "fail" ELSE "summarize")
  /\ environ' = Restored(environ, env[j], old[j])
  /\ status' = [status EXCEPT ![j] = IF run[j] = None THEN "running" ELSE "succeeded"]
  /\ UNCHANGED <<result, error, env, old, run, active_job_id, run_json, reader>>
LeaveEnv(j) ==
  /\ Goto(j, "leave", IF run[j] = None THEN "fail" ELSE "summarize")
  /\ environ' = Restored(environ, env[j], old[j])
  /\ UNCHANGED <<status, result, error, env, old, run, active_job_id, run_json, reader>>

\* _summarize_artifacts; it may raise on a file.
Summarize(j) ==
  /\ \/ Goto(j, "summarize", "succeed") /\ result' = [result EXCEPT ![j] = run[j]]
     \/ Goto(j, "summarize", "fail") /\ UNCHANGED result
  /\ UNCHANGED <<status, error, env, old, run, active_job_id, environ, run_json, reader>>

\* _run_rtl: the child writes run.json before it builds and runs the simulator,
\* and a status other than 0 raises.
Simulate(j) ==
  /\ \/ Goto(j, "simulate", "collect") /\ run_json' = env[j]
     \/ Goto(j, "simulate", "fail") /\ run_json' \in {run_json, env[j]}
  /\ UNCHANGED <<status, result, error, env, old, run, active_job_id, environ, reader>>
Collect(j) ==
  /\ \/ Goto(j, "collect", "succeed") /\ result' = [result EXCEPT ![j] = run_json]
     \/ Goto(j, "collect", "fail") /\ UNCHANGED result
  /\ UNCHANGED <<status, error, env, old, run, active_job_id, environ, run_json, reader>>

Succeed(j) ==
  /\ Goto(j, "succeed", "finish")
  /\ status' = [status EXCEPT ![j] = "succeeded"]
  /\ UNCHANGED <<result, error, env, old, run, active_job_id, environ, run_json, reader>>

\* The except clause: the status first, then the error
Fail(j) ==
  /\ Goto(j, "fail", "explain")
  /\ status' = [status EXCEPT ![j] = "failed"]
  /\ UNCHANGED <<result, error, env, old, run, active_job_id, environ, run_json, reader>>
Explain(j) ==
  /\ Goto(j, "explain", "finish")
  /\ error' = [error EXCEPT ![j] = TRUE]
  /\ UNCHANGED <<status, result, env, old, run, active_job_id, environ, run_json, reader>>

\* Mutant: clears the active job whoever it is
ReleasedAlways(j) == None
\* The finally clause, under the lock: another job may be the active one by now.
Released(j) == IF active_job_id = j THEN None ELSE active_job_id
Finish(j) ==
  /\ Goto(j, "finish", "done") /\ active_job_id' = Released(j)
  /\ UNCHANGED <<status, result, error, env, old, run, environ, run_json, reader>>

Thread(j) ==
  \/ Begin(j) \/ JobEnv(j) \/ EnterEnv(j) \/ Build(j) \/ LeaveEnv(j) \/ Summarize(j)
  \/ Simulate(j) \/ Collect(j) \/ Succeed(j) \/ Fail(j) \/ Explain(j) \/ Finish(j)

-----------------------------------------------------------------------------
(* to_json in a handler, outside the lock: the status is read first.        *)

ReadStatus(r, j) ==
  /\ reading[r] = None \/ whole[r]
  /\ status[j] # "none"
  /\ reading' = [reading EXCEPT ![r] = j] /\ whole' = [whole EXCEPT ![r] = FALSE]
  /\ body' = [body EXCEPT ![r] = [status |-> status[j], result |-> None]]
  /\ UNCHANGED <<job, active_job_id, environ, run_json>>

ReadResult(r) ==
  /\ reading[r] # None /\ ~whole[r]
  /\ body' = [body EXCEPT ![r] = [status |-> body[r].status, result |-> result[reading[r]]]]
  /\ whole' = [whole EXCEPT ![r] = TRUE]
  /\ UNCHANGED <<job, active_job_id, environ, run_json, reading>>

Next ==
  \/ \E j \in Job : Create(j) \/ StartThread(j) \/ Thread(j)
  \/ \E r \in Reader : (\E j \in Job : ReadStatus(r, j)) \/ ReadResult(r)

\* No fairness: nothing bounds the time of a builder or of the simulator.
Spec == Init /\ [][Next]_vars

-----------------------------------------------------------------------------
(* Properties                                                               *)

Places == {"new", "created", "lost", "begin", "env", "enter", "build", "leave", "summarize",
           "simulate", "collect", "succeed", "fail", "explain", "finish", "done"}
Statuses == {"none", "queued", "running", "succeeded", "failed"}
Maybe == Setting \cup {None}
TypeOK ==
  /\ status \in [Job -> Statuses] /\ result \in [Job -> Maybe] /\ error \in [Job -> BOOLEAN]
  /\ at \in [Job -> Places]
  /\ env \in [Job -> Maybe] /\ old \in [Job -> Maybe] /\ run \in [Job -> Maybe]
  /\ active_job_id \in Job \cup {None} /\ environ \in Setting /\ run_json \in Maybe
  /\ reading \in [Reader -> Job \cup {None}] /\ whole \in [Reader -> BOOLEAN]
  /\ body \in [Reader -> [status : Statuses, result : Maybe]]

Own(j) == Overlay(Environ0, Payload[j])

\* "another demo job is already running": two jobs are never unended at a time,
\* though a job gives up its place by its status and not by its finally clause.
OneJobAtATime ==
  \A i, j \in Job : status[i] \in Unended /\ status[j] \in Unended => i = j

\* A bundle is built with the settings of its own request over the environment
\* the server was started in, and a job leaves that environment as it was: no
\* setting of an earlier job, failed or not, leaks into a later one.
BuildSeesOwnSettings ==
  /\ \A j \in Job : run[j] \in {None, Own(j)}
  /\ (\A j \in Job : at[j] \notin {"build", "leave"}) => environ = Environ0

\* A response that says succeeded carries the result, that of its own job, though
\* to_json holds no lock.
SucceededHasResult ==
  \A r \in Reader : whole[r] /\ body[r].status = "succeeded" => body[r].result = Own(reading[r])
=============================================================================
