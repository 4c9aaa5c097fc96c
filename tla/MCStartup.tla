------------------------------- MODULE MCStartup -------------------------------
(***************************************************************************)
(* A small instance of Startup.  Words have two letters; an int is at most *)
(* 99, m_maxNodeHeight is stored modulo 16.                                *)
(***************************************************************************)
EXTENDS Startup

Words == (<<"n", "h">> :> "MaxNodeHeight") @@ (<<"l", "p">> :> "LogFilePath")
         @@ (<<"l", "l">> :> "LogLevel") @@ (<<"l", "m">> :> "LogMode")
         @@ (<<"t", "r">> :> "Trace") @@ (<<"f", "i">> :> "File") @@ (<<"t", "e">> :> "Terminal")

Spaces == {" ", "\t"}

Digits == ("1" :> 1) @@ ("6" :> 6)

Widths == [k \in NumberKey |-> IF k = "MaxNodeHeight" THEN 16 ELSE 32]

Lines == {
  <<"n", "h", ":", "1", "6">>, <<"n", "h", ":", " ", "6">>, <<"n", "h", ":", "6">>,
  <<"n", "h", ":", "-", "1", " ">>, <<"\t", "n", "h">>, <<"#">>, <<"l", "p">>, <<" ", " ">>,
  <<"l", "p", ":", "x", ":", "y">>, <<"l", "p", " ", ":", "z", " ", "z">>,
  <<"l", "l", ":", "t", "r">>, <<"l", "m", ":", "f", "i">>, <<"l", "m", ":", " ", "t", "e">>,
  <<"l", "m", ":", "q", "q">>}
=============================================================================
