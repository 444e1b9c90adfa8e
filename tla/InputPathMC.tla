---------------------------- MODULE InputPathMC ----------------------------
(* The assignments of the model-checking runs of InputPath: axis 1 is a    *)
(* rotation, axis 2 a translation.                                         *)
EXTENDS InputPath

Mapping(r1, r2, t1, t2, left, right) ==
  [c \in Controls |-> IF c = <<1, 1>> THEN r1 ELSE IF c = <<1, -1>> THEN r2
                      ELSE IF c = <<2, 1>> THEN t1 ELSE IF c = <<2, -1>> THEN t2
                      ELSE IF c = <<0, 1>> THEN left ELSE right]

\* Parts of the default mapping, the buttons included
Default == Mapping("fast", "analog_up", "mic_ptt", "analog_right", "ng", "ok")

\* Two controls of one code, and of the joystick
Shared == Mapping("ok", "mic_ptt", "analog_left", "encoder_cw", "mic_ptt", "analog_up")

\* Agents chosen directly and by steps
Agents == Mapping("agent_next", "agent_previous", "unassigned", "encoder_ccw", "agent_2", "send")

DefaultOnly == {Default}
Several == {Default, Shared, Agents}
=============================================================================
