----------------------------- MODULE MCSoftware -----------------------------
(* The software: the job server, the smoke runtime of the card, greedy      *)
(* decoding, and the programs the builders write for the chip.  A behaviour *)
(* exercises one of them.                                                   *)
EXTENDS Hosts, MCProgramRun

VARIABLE lane   \* the program at work

-----------------------------------------------------------------------------
(* Three jobs: one sets both variables to values of its own, one runs the  *)
(* RTL simulator, one leaves both as they are.                             *)

MCJob == 1 .. 3
MCKey == {"QWEN_SEED", "QWEN_MXU_DIM"}
MCSetting(seed, dim) == [k \in MCKey |-> IF k = "QWEN_SEED" THEN seed ELSE dim]
MCPayload == <<MCSetting("a", Unset), MCSetting("b", "a"), MCSetting(Unset, Unset)>>
MCEnviron0 == MCSetting(Unset, "b")

-----------------------------------------------------------------------------
(* Attention in every other layer, grouped heads, a convolution shorter    *)
(* than the sequences, no prompt and prompts longer than the convolution.  *)

MCConfig == [n_layers |-> 4, d_model |-> 4, d_ff |-> 3, vocab |-> 3, n_q_heads |-> 4,
             n_kv_heads |-> 2, head_dim |-> 4, rope_dim |-> 2, dn_v_heads |-> 4,
             dn_qk_heads |-> 2, dn_head_dim |-> 2, conv_k |-> 2, attn_every |-> 2]
MCPrompts == {<<>>, <<1>>, <<2, 0>>, <<2, 1, 1>>}
MCNewTokens == {0, 3}

-----------------------------------------------------------------------------
(* Behaviours of one program                                               *)

MCVars == <<lane, vars, serverVars, smokeVars, runVars>>

NoServer == /\ status = [j \in Job |-> "none"] /\ place = [j \in Job |-> "new"] /\ result = <<>> /\ error = <<>>
            /\ active_job_id = None /\ env = <<>> /\ saved = <<>> /\ environ = Environ0 /\ run_json = None
            /\ run = [j \in Job |-> None] /\ reading = <<>> /\ whole = [r \in Reader |-> FALSE] /\ body = <<>>
NoCard == /\ opts = <<>> /\ step = [p \in Proc |-> "new"] /\ word = 0 /\ chip = "idle"
          /\ passed = [p \in Proc |-> FALSE] /\ idle_at_attach = passed /\ ran = <<>>
          /\ unit_error = FALSE /\ memory = <<>> /\ product = <<>> /\ launched = <<>> /\ computed = <<>>
NoModel == InitWith(<<>>, 0)
NoProgram == Start(Plain(<<>>, NoMemory, {}, 1))

MCInit == \/ lane = "server" /\ Server!Init /\ NoCard /\ NoModel /\ NoProgram
          \/ lane = "smoke" /\ NoServer /\ Smoke!Init /\ NoModel /\ NoProgram
          \/ lane = "decode" /\ NoServer /\ NoCard /\ Init /\ NoProgram
          \/ lane = "program" /\ NoServer /\ NoCard /\ NoModel /\ ProgramInit

Serves  == lane = "server" /\ UNCHANGED <<lane, smokeVars, vars, runVars>>
Smokes  == lane = "smoke" /\ UNCHANGED <<lane, serverVars, vars, runVars>>
Decodes == lane = "decode" /\ UNCHANGED <<lane, serverVars, smokeVars, runVars>>
Runs    == lane = "program" /\ UNCHANGED <<lane, serverVars, smokeVars, vars>>

MCNext == \/ Serves /\ Server!Next
          \/ Smokes /\ Smoke!Next
          \/ Decodes /\ Next
          \/ Runs /\ RunNext

\* The fairness of the processes on the card
MCSpec == /\ MCInit /\ [][MCNext]_MCVars
          /\ \A p \in Proc : WF_smokeVars(lane = "smoke" /\ Smoke!Main(p))
=============================================================================
