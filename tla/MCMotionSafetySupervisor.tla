-------------------- MODULE MCMotionSafetySupervisor --------------------
(* One joint, a safe and an unsafe target, a candidate that reports the    *)
(* button, and clocks on both sides of their limits.                       *)
EXTENDS MotionSafetySupervisor

MCEnvelope ==
  [joints |-> [j \in {"neck"} |->
                 [verified |-> TRUE, min_deg |-> -1, neutral_deg |-> 0, max_deg |-> 1]],
   workspace |-> [verified |-> TRUE,
                  axes |-> [a \in {"x"} |-> [min |-> 0, max |-> 1]]],
   allowed_states |-> {"ARMED"},
   robot_verified |-> TRUE, servos_verified |-> TRUE,
   motion_policy |-> [command_ttl_ms |-> 1, heartbeat_timeout_ms |-> HeartbeatTimeout,
                      max_velocity_deg_s |-> 1, max_acceleration_deg_s2 |-> 1]]

MCCandidates ==
  [system_state : {"ARMED"}, estop_active : BOOLEAN,
   joint_targets_deg : {[j \in {"neck"} |-> t] : t \in {1, 2}},
   workspace_point_mm : {[a \in {"x"} |-> 0]}]

Still == [j \in {"neck"} |-> 0]

MCDynamics ==
  [command_age_ms : {0, 2},
   heartbeat_age_ms : {0, HeartbeatTimeout + 1, NonFinite},
   joint_velocities_deg_s : {Still}, joint_accelerations_deg_s2 : {Still}]

MCAges == {-1, 0, HeartbeatTimeout, HeartbeatTimeout + 1, NonFinite}
===========================================================================
