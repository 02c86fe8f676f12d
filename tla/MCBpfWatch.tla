------------------------------ MODULE MCBpfWatch ------------------------------
(* Instances of BpfWatch for TLC. *)
EXTENDS BpfWatch

Packaged == [exe |-> "tracerd", place |-> "other", deleted |-> FALSE, packaged |-> TRUE,
             root |-> TRUE, unit |-> "other", inSlice |-> FALSE, shell |-> FALSE]
Systemd  == [exe |-> "executor", place |-> "other", deleted |-> FALSE, packaged |-> TRUE,
             root |-> TRUE, unit |-> "systemd", inSlice |-> FALSE, shell |-> FALSE]

Device   == [name |-> "device", attach |-> "device", sensitive |-> FALSE, inSlice |-> TRUE]
Execve   == [name |-> "execve", attach |-> "other", sensitive |-> TRUE, inSlice |-> FALSE]

(* 40 points: watched; 60 more at execve.                                  *)
Tracer(loader, uses) ==
  [name |-> "tracer", type |-> "tracepoint", tag |-> "trace",
   code |-> IF uses = {} THEN <<"trace">> ELSE <<"jump">>, cgroup |-> {}, net |-> {},
   loader |-> loader, maps |-> uses]
Devices(loader) ==
  [name |-> "sd_devices", type |-> "cgroup_device", tag |-> "sd", code |-> <<"sd">>,
   cgroup |-> {Device}, net |-> {}, loader |-> loader, maps |-> {}]

Mixed      == {Tracer(Packaged, {}), Tracer(Packaged, {1}), Devices(Systemd)}

HookLink   == {[id |-> 1, hook |-> Execve]}
ProgArray  == {[name |-> "jumps", type |-> "prog_array", btf |-> "none"]}

(* A listing, or the lookups for a program.                                *)
AnyCall    == {{<<"prog", 0>>}, {<<"map", 0>>}, {<<"link", 0>>, <<"cgroup", 0>>},
               {<<"xlated", 1>>}, {<<"systemctl", 1>>, <<"dpkg", 1>>}}

==============================================================================
