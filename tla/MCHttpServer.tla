--------------------------- MODULE MCHttpServer ---------------------------
(* Instances of HttpServer. *)
EXTENDS HttpServer

R(body, sizes) == [body |-> body, sizes |-> sizes, closes |-> FALSE]
C(body, sizes) == [body |-> body, sizes |-> sizes, closes |-> TRUE]

Programs ==
  {<<R("length", <<2, 1>>), R("none", <<>>)>>, <<R("chunks", <<2>>), R("length", <<2>>)>>,
   <<R("none", <<>>), C("chunks", <<1, 2>>)>>, <<R("chunks", <<>>), R("length", <<>>)>>,
   <<R("length", <<3>>), C("none", <<>>)>>, <<C("length", <<>>)>>,
   <<C("chunks", <<2>>)>>, <<C("length", <<1, 2>>)>>,
   <<C("none", <<>>), R("chunks", <<1>>)>>}

Everything ==
  [program : Programs, pipelines : BOOLEAN, cuts : {"usual"}, keeps : BOOLEAN,
   answers : {"at once", "in parts", "later", "later in parts"}, pings : {FALSE}]
  \cup
  [program : {<<C("chunks", <<1>>)>>, <<R("length", <<1>>), C("none", <<>>)>>}, pipelines : {FALSE},
   cuts : {"anywhere"}, keeps : {TRUE}, answers : {"in parts", "later"}, pings : {TRUE}]

\* a read ends before the blank line
Blank ==
  [program : {<<R("chunks", <<2>>)>>}, pipelines : {FALSE}, cuts : {"anywhere"}, keeps : {TRUE},
   answers : {"at once"}, pings : {FALSE}]
===========================================================================
