---------------------------- MODULE MCLogStderr ----------------------------
(* LogStderr for TLC: plain lines of every length from none to twice the   *)
(* buffer, with a carriage return at their end, at that of the buffer, or  *)
(* none; a short line of every other form, "bad" being JSON that does not  *)
(* parse as a log entry; and long lines that would be taken for a panic, a *)
(* tagged line or an entry if they were whole.                             *)
EXTENDS LogStderr

Plain(n, c) == [form |-> <<"plain", NoLevel>>, length |-> n, crs |-> c]
OtherForms == {<<"bad", NoLevel>>, <<"panic", NoLevel>>, <<"tag", 4>>,
               <<"json", NoLevel>>, <<"json", 3>>, <<"json", Off>>}
LongForms == {<<"panic", NoLevel>>, <<"tag", 4>>, <<"json", 3>>}

MCLines ==
  {Plain(n, {}) : n \in 0..(2 * Buffer)}
  \cup {Plain(n, {n}) : n \in 1..(2 * Buffer)}
  \cup {Plain(n, {Buffer}) : n \in (Buffer + 1)..(2 * Buffer)}
  \cup {[form |-> f, length |-> 1, crs |-> {}] : f \in OtherForms}
  \cup {[form |-> f, length |-> Buffer + 1, crs |-> {}] : f \in LongForms}
=============================================================================
