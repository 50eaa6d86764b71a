------------------------ MODULE MCDarkroomPipeline ------------------------
(* Instances of DarkroomPipeline for TLC. *)
EXTENDS DarkroomPipeline

CONSTANTS picker, scope

MainOnly == <<"main">>
BothPipes == <<"preview", "main">>

\* Every consumer samples the main pipe: the picker the output of the first module, the scope
\* the backbuffer.
OnMain == [c \in Consumers |-> "main"]
PickerAndScope == [c \in Consumers |-> IF c = picker THEN 1 ELSE Depth]
=============================================================================
