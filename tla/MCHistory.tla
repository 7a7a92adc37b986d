------------------------------- MODULE MCHistory -------------------------------
(* Small instances of History: two files with two contents.                *)
EXTENDS History, TLC

CONSTANTS f1, f2, c1, c2

OneFile    == {[x \in {f1, f2} |-> IF x = f1 THEN c1 ELSE None]}
Everything == {{}}
AllButOne  == {{}, {f1}}

================================================================================
