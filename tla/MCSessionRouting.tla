-------------------------- MODULE MCSessionRouting --------------------------
(* Model-checking instances of SessionRouting: the kinds of conversations  *)
(* the interceptor meets, three of them at a time.                         *)
EXTENDS SessionRouting, TLC

CONSTANTS c1, c2, c3, a1, a2, p1, e1, t1, t2

Conversations == {c1, c2, c3}
Peers         == {a1, a2}
Processes     == {p1}
Ids           == {e1}
Texts         == {t1, t2}

Kind(process, known, id, inHeaders, text, opening) ==
    [process |-> process, known |-> known, id |-> id, inHeaders |-> inHeaders,
     text |-> text, opening |-> opening]

Kinds ==
    {Kind(p1, TRUE, None, FALSE, t1, 1),    \* an agent that sends no session id
     Kind(p1, TRUE, None, FALSE, t2, 1),
     Kind(p1, TRUE, None, FALSE, None, 2),  \* its first message has no text
     Kind(p1, FALSE, e1, TRUE, t1, 1),      \* an id in the headers
     Kind(p1, TRUE, e1, FALSE, t2, 2),      \* an id in the body
     Kind(None, TRUE, e1, FALSE, t1, 1),    \* from a process not found
     Kind(None, TRUE, None, FALSE, t1, 1),
     Kind(None, FALSE, None, FALSE, t2, 1)}

Symmetry == Permutations({c1, c2, c3}) \cup Permutations({a1, a2})
=============================================================================
