------------------------------- MODULE Hosts -------------------------------
(* The host programs with state of their own: greedy decoding of the       *)
(* reference runtime, the job server and the smoke runtime of the card.    *)
EXTENDS Decode

CONSTANTS
  Job, Key, Value, Unset, None, Payload, Rtl, Environ0, Reader,   \* of DemoServer
  Proc, Programs, Tile, Words                                     \* of SmokeHost

VARIABLES
  \* DemoServer, whose at is place and whose old is saved
  status, result, error, active_job_id, place, env, saved, run, environ, run_json,
  reading, whole, body,
  \* SmokeHost, whose at is step, whose i is word and whose c is product
  opts, step, word, passed, chip, unit_error, memory, product, launched, computed,
  idle_at_attach, ran

Server == INSTANCE DemoServer WITH at <- place, old <- saved
ASSUME ServerAssumption == Server!SettingsOK

Smoke == INSTANCE SmokeHost WITH at <- step, i <- word, c <- product
ASSUME CardAssumption == Smoke!ConstantsOK

serverVars == <<status, result, error, active_job_id, place, env, saved, run, environ, run_json,
                reading, whole, body>>
smokeVars == <<opts, step, word, passed, chip, unit_error, memory, product, launched, computed,
               idle_at_attach, ran>>

\* "another demo job is already running": no two jobs are ever unended at once.
OneJobAtATime == Server!OneJobAtATime

\* A bundle is built with the settings of its own request over the environment
\* the server was started in, which is as it was when no job is inside.
BuildSeesOwnSettings == Server!BuildSeesOwnSettings

\* A response that says succeeded carries the result of its own job.
SucceededHasResult == Server!SucceededHasResult

\* "vTPU F2 smoke PASS" of a process that found the card idle is about its own
\* program, operands and run, whatever became of the processes before it.
PassIsOwnRun == Smoke!PassIsOwnRun

\* The smoke runtime ends whatever the card does.
ProcessEnds == Smoke!ProcessEnds
=============================================================================
