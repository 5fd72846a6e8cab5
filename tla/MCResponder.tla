---------------------------- MODULE MCResponder ----------------------------
(* Responder for TLC: the lines that are received. *)
EXTENDS Responder, TLC

CONSTANTS m1

Object(ts, sig, method, params, id) ==
  [body |-> "object", timestamp |-> ts, sig |-> sig, method |-> method,
   params |-> params, id |-> id]

NotAnObject(kind) == [Object("bad", "bad", None, None, None) EXCEPT !.body = kind]

Request(params, id) == Object("fresh", "good", m1, params, id)

\* Requests and notifications that pass the checks, and a line for every way of
\* failing one.
SomeLines ==
  {NotAnObject(kind) : kind \in {"garbage", "array", "scalar"}} \cup
  {Object(ts, "good", m1, <<"string">>, 1) : ts \in {"missing", "not_integral", "old"}} \cup
  {Object("fresh", sig, m1, <<"string">>, 1) : sig \in {"null", "not_string", "wrong"}} \cup
  {Object("fresh", "good", None, <<"string">>, 1)} \cup
  {Request(params, 1) : params \in {None, <<>>, <<"real">>, <<"string", "string">>}} \cup
  {Request(<<"string">>, id) : id \in {None, 1, 2}} \cup
  {Request(<<"integer">>, None)}

SomeTypes == {<<"String">>, <<"Float">>}

Symmetry == Permutations(Contexts) \cup Permutations(Reqs) \cup Permutations(Values)
=============================================================================
