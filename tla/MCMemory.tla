------------------------------- MODULE MCMemory -------------------------------
\* Two devices, two processes on the first.  Two scopes, by the process that
\* stays quiet: the two devices, where a command goes on at once until it
\* needs the network, or the two processes of one.  A packet states nothing, or both
\* cases.  Nothing follows the removal of the lock file of a process at work.
EXTENDS MemoryStore
CONSTANTS hook, desktop
VARIABLE quiet
MCOn == [p \in Procs |-> IF p = desktop THEN "desktop" ELSE "laptop"]
MCDevices == {"laptop", "desktop"}
MCPackets == {{}, {<<"case", 1>>, <<"case", 2>>}}
MCBound == IF quiet = hook THEN faults' + made'["rule"] <= 2 ELSE faults' + made'["rule"] <= 3
MCInit == Init /\ quiet \in {hook, desktop}
AtOnce ==
  \A p \in Procs : pc[p].op \notin {"idle", "pull", "push"} => pc'[p] # pc[p] \/ tree'[On[p]] # tree[On[p]]
MCNext ==
  \/ ~overtaken /\ Next /\ pc'[quiet] = Idle /\ MCBound /\ (quiet = hook => AtOnce) /\ UNCHANGED quiet
  \/ overtaken /\ UNCHANGED <<vars, quiet>>
MCSpec == MCInit /\ [][MCNext]_<<vars, quiet>>
\* No process is killed.
AliveSpec == MCInit /\ [][MCNext /\ \A p \in Procs : ~Kill(p)]_<<vars, quiet>>
===============================================================================
