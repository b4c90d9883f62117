------------------------------- MODULE VmNet --------------------------------
(***************************************************************************)
(* Port forwards of NAT VMs on Linux (crates/husker-core/src/network.rs):  *)
(* a row of port_forwards, an nftables rule while the guest is up, a       *)
(* userspace resume listener while it is suspended.  Adding and removing a *)
(* forward takes no name lock.  A rule is found by the TAP of its VM and   *)
(* the host port, a row by the host port alone.  net.clashed remembers the *)
(* ports where one call took away the rule of another.                     *)
(***************************************************************************)
EXTENDS VmRows

Forwards(v) == {p \in Ports : net.forward[p] = v}
Rules(v)    == Ports \X {v}

netRest == <<row, mem, host, disk, op, daemon, menu>>

\* add_port_forward up to the nftables rule.  The same forward again is a no-op;
\* another guest port of a VM that has the host port is not ("reforward").
AddForwardRule(p, v) ==
    /\ Call(IF net.forward[p] = v THEN "reforward" ELSE "forward")
    /\ row[v].state # "absent" /\ row[v].tapdev
    /\ <<p, v>> \notin net.adding
    /\ net' = [net EXCEPT !.adding = @ \cup {<<p, v>>},
                          !.dnat = @ \cup {<<p, v>>}]
    /\ UNCHANGED netRest

\* add_port_forward inserts the row; the port is UNIQUE and the VM a foreign
\* key, so a conflict takes the rules of this VM and port back.
AddForwardRow(p, v) ==
    LET free == net.forward[p] = NoVm /\ row[v].state # "absent" IN
    /\ Serving /\ <<p, v>> \in net.adding
    /\ net' = [net EXCEPT
                 !.adding = @ \ {<<p, v>>},
                 !.forward[p] = IF free THEN v ELSE @,
                 !.dnat = IF free THEN @ ELSE @ \ {<<p, v>>},
                 !.clashed = IF net.forward[p] = v THEN @ \cup {p} ELSE @]
    /\ UNCHANGED <<netRest, hist>>

\* remove_port_forward takes down the rules of this VM and port ...
RemoveForwardRule(p, v) ==
    /\ Call("unforward")
    /\ row[v].state # "absent" /\ row[v].tapdev
    /\ <<p, v>> \notin net.removing
    /\ net' = [net EXCEPT
                 !.dnat = @ \ {<<p, v>>}, !.removing = @ \cup {<<p, v>>},
                 !.clashed = IF <<p, v>> \in net.adding THEN @ \cup {p} ELSE @]
    /\ UNCHANGED netRest

\* ... then the row of this port, whoever owns it by then.
RemoveForwardRow(p, v) ==
    /\ Serving /\ <<p, v>> \in net.removing
    /\ net' = [net EXCEPT !.removing = @ \ {<<p, v>>}, !.forward[p] = NoVm]
    /\ UNCHANGED <<netRest, hist>>

\* install_resume_listeners, for a VM that wakes up on a connection; the host
\* has one listener per port.
Listeners(v, ps) ==
    IF v \in AutoResume /\ row[v].tapdev
    THEN net.listening \cup {<<p, v>> : p \in
            {q \in ps : \A w \in Vms : <<q, w>> \notin net.listening}}
    ELSE net.listening

\* release_vm_host_network: the rules, the TAP and the address of a row.
Released(v) == SetTap(v, FALSE)

\* ON DELETE CASCADE of port_forwards.vm_id
Dropped(v) == [p \in Ports |-> IF net.forward[p] = v THEN NoVm
                                                   ELSE net.forward[p]]
=============================================================================
