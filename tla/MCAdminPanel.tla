---------------------------- MODULE MCAdminPanel ----------------------------
(* Three agendas: errors of two groups and a message, two pages that ask   *)
(* for the state of the process, and one that asks for a group of errors.  *)
EXTENDS AdminPanel

CONSTANTS u1, r1, r2, r3, g1, g2, q1, q2, q3

MCGroupOf == [r \in Record |-> IF r = r3 THEN g2 ELSE g1]
MCSubjectOf == [q \in Request |-> IF q = q3 THEN g1 ELSE "runtime"]
MCAgendas == {{u1, r1, r2, r3}, {q1, q2}, {r1, q3}}

\* Nothing but a message.
OnlyMessages == {{u1}}
=============================================================================
