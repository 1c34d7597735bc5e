----------------------------- MODULE MCSocks5 -----------------------------
(* Instances of Socks5. *)
EXTENDS Socks5

\* clients with and without a password, of all manners, reads of whole messages and reads that
\* end anywhere
Everything ==
  [auth : BOOLEAN, login : {"none", "right", "wrong"},
   manner : {"usual", "eager", "insistent"}, cuts : {"whole", "anywhere"}, early : BOOLEAN]
===========================================================================
