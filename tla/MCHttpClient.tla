--------------------------- MODULE MCHttpClient ---------------------------
(* Instances of HttpClient. *)
EXTENDS HttpClient

\* all answers, for an application that waits
CalmOnes ==
  [alive : BOOLEAN, redirects : BOOLEAN, codes : {{"good", "moved", "auth", "error"}},
   closing : BOOLEAN, parts : BOOLEAN, sends : {"calm"}]

\* an application that sends at any time, and answers before the answer
Others ==
  [alive : {TRUE}, redirects : {TRUE}, codes : {{"good", "moved", "interim"}},
   closing : {FALSE}, parts : {TRUE}, sends : {"any"}]

Everything == CalmOnes \cup Others

\* the next request is sent while others are queued
Eager == [alive : {TRUE}, redirects : {FALSE}, codes : {{"good"}},
          closing : {FALSE}, parts : {FALSE}, sends : {"any"}]

\* a redirect leads to an error
Lost == [alive : {TRUE}, redirects : {TRUE}, codes : {{"moved", "error"}},
         closing : {FALSE}, parts : {FALSE}, sends : {"calm"}]
===========================================================================
