------------------------------ MODULE Transcript ------------------------------
(***************************************************************************)
(* What a provider is sent of the agent's conversation. The loop keeps it   *)
(* as OpenAI's chat messages, which go to OpenAI and Groq as they are; for  *)
(* Anthropic and Gemini they are converted message by message, in           *)
(* providers/anthropic/adapter.py and providers/gemini/adapter.py. Every    *)
(* turn selects its model anew, so a provider may be sent the calls that    *)
(* models of another have made.                                             *)
(*                                                                          *)
(* A message is a turn, [role |-> "assistant", calls |-> ...], or a result, *)
(* [role |-> "tool", call |-> ..., ok |-> ...]. Texts are left out: a part  *)
(* of its own in front of a turn's calls, the goal and the system prompt.   *)
(***************************************************************************)
EXTENDS Naturals, Sequences

(* The arguments of a call are JSON text: an object, another value, or none. *)
Arguments == {"object", "other", "garbled"}

IsTurn(m) == m.role = "assistant"

-----------------------------------------------------------------------------
(* _openai_messages_to_anthropic: arguments that are no JSON become {}.      *)
ToolUse(c) ==
  [type |-> "tool_use", id |-> c.id, name |-> c.tool,
   input |-> IF c.args = "garbled" THEN "object" ELSE c.args]
Anthropic(ms) ==
  [i \in DOMAIN ms |->
     IF IsTurn(ms[i])
     THEN [role |-> "assistant", content |-> [k \in DOMAIN ms[i].calls |-> ToolUse(ms[i].calls[k])]]
     ELSE [role |-> "user",
           content |-> <<[type |-> "tool_result", tool_use_id |-> ms[i].call.id]>>]]

-----------------------------------------------------------------------------
(* _openai_messages_to_gemini_contents: arguments that are no object become  *)
(* {}, and a result, which has the id of its call only, is given the name    *)
(* that the latest call with this id has registered.                         *)
FunctionCall(c) == [id |-> c.id, name |-> c.tool, args |-> "object"]
Registers(m, id) == IsTurn(m) /\ \E k \in DOMAIN m.calls : m.calls[k].id = id
Name(m, id) == m.calls[CHOOSE k \in DOMAIN m.calls : m.calls[k].id = id].tool
Latest(is) == CHOOSE j \in is : \A k \in is : k <= j
tool_id_to_name(ms, i, id) ==
  LET is == {j \in DOMAIN ms : j < i /\ Registers(ms[j], id)}
  IN IF is = {} THEN "" ELSE Name(ms[Latest(is)], id)
Gemini(ms) ==
  [i \in DOMAIN ms |->
     IF IsTurn(ms[i])
     THEN [role |-> "model", parts |-> [k \in DOMAIN ms[i].calls |-> FunctionCall(ms[i].calls[k])]]
     ELSE [role |-> "user",
           parts |-> <<[id |-> ms[i].call.id, name |-> tool_id_to_name(ms, i, ms[i].call.id)]>>]]
=============================================================================
