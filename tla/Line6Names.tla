----------------------------- MODULE Line6Names -----------------------------
(***************************************************************************)
(* What DeviceNameCopy promises, with no reference counts and no segment:  *)
(* a caller is given a string with the text it asks for, the one given     *)
(* last if that has this text, and otherwise one that no caller holds.  A  *)
(* string somebody holds is never given another text.                      *)
(***************************************************************************)
CONSTANTS
  Callers,
  Strings,         \* the CFString objects there can be
  Texts,
  None             \* no string

VARIABLES
  name,            \* the string given last
  text,            \* its text
  holds            \* the string each caller holds, or None

vars == <<name, text, holds>>

Init ==
  /\ name = None
  /\ text \in Texts
  /\ holds = [c \in Callers |-> None]

Held(s) == \E c \in Callers : holds[c] = s

(* A caller keeps the string, or compares it with the one it holds and     *)
(* lets go of both.                                                        *)
Gets(c) ==
  /\ \E s \in Strings :
       /\ name' = s
       /\ text' \in Texts
       /\ IF name # None /\ text' = text THEN s = name ELSE ~Held(s)
       /\ holds' = [holds EXCEPT ![c] = IF holds[c] = None THEN s ELSE None]

Releases(c) ==
  /\ holds[c] # None
  /\ holds' = [holds EXCEPT ![c] = None]
  /\ UNCHANGED <<name, text>>

Next == \E c \in Callers : Gets(c) \/ Releases(c)

Spec == Init /\ [][Next]_vars
=============================================================================
