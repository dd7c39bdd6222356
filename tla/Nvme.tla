-------------------------------- MODULE Nvme --------------------------------
(***************************************************************************)
(* The start of the NVMe controller, device/nvme/nvme.c: initNVMe resets   *)
(* the controller, then passes it admin commands one by one through a      *)
(* submission ring, halts until an interrupt comes, and reads the answer   *)
(* from a completion ring.  The controller, which works on its own, is     *)
(* modelled from what the driver expects of it.  Module Pci models how the *)
(* controller is found and its interrupts set up.                          *)
(***************************************************************************)
EXTENDS Integers, Sequences

CONSTANT admin_queue_size   \* entries of both rings, 8 in the code

VARIABLES
  pc,       \* where initNVMe is
  k,        \* the command it is at
  drv,      \* [tail, head, phase]: admin_sub_tail, admin_com_head, admin_new_phase
  status,   \* the ready bit as initNVMe last read it
  response, \* what getAdminResponse copied: <<command, phase>>
  sub, com, \* the rings in memory
  dev,      \* the controller, see Init
  seen,     \* the commands it has fetched
  irq,      \* its interrupt is pending
  stray     \* an interrupt of another device has ended a hlt

vars == <<pc, k, drv, status, response, sub, com, dev, seen, irq, stray>>

\* The commands in their order; the page or queue they name is left out.
nvmeIdentifyController == "controller"
nvmeIdentifyNamespaceList == "list"
nvmeIdentifyNamespace == "namespace"
nvmeCreateComQueue == "create completion queue"
nvmeCreateSubQueue == "create submission queue"
Commands == <<nvmeIdentifyController, nvmeIdentifyNamespaceList, nvmeIdentifyNamespace,
              nvmeCreateComQueue, nvmeCreateSubQueue>>

None == <<"none", 0>>
Slots == 0 .. admin_queue_size - 1

\* The firmware may have left the controller running.
Init ==
  /\ pc = "status" /\ k = 1
  /\ drv = [tail |-> 0, head |-> 0, phase |-> 1]
  /\ status \in BOOLEAN /\ response = None
  /\ sub = [i \in Slots |-> "none"] /\ com = [i \in Slots |-> None]
  /\ dev \in [enable : BOOLEAN, ready : BOOLEAN, sub_tail : {0}, sub_head : {0},
              com_tail : {0}, com_head : {0}, phase : {1}, work : {"none"}]
  /\ dev.ready = dev.enable
  /\ seen = <<>> /\ irq = FALSE /\ stray = FALSE

Goto(from, to) == pc = from /\ pc' = to

-----------------------------------------------------------------------------
(* The driver.                                                             *)

nvmeReadStatus ==
  \/ /\ Goto("status", "disable")
     /\ status' = dev.ready
     /\ UNCHANGED <<k, drv, response, sub, com, dev, seen, irq, stray>>
  \/ /\ \/ pc = "off" /\ status
        \/ pc = "on" /\ ~status
     /\ status' = dev.ready
     /\ UNCHANGED <<pc, k, drv, response, sub, com, dev, seen, irq, stray>>

\* Mutant: the controller is configured without waiting for it to stop.
nvmeWriteConfigEarly ==
  /\ \/ Goto("disable", "setup") /\ dev' = [dev EXCEPT !.enable = FALSE]
     \/ Goto("setup", "on") /\ dev' = [dev EXCEPT !.enable = TRUE]
  /\ UNCHANGED <<k, drv, status, response, sub, com, seen, irq, stray>>

\* enable is cleared; the queue registers and enable are set once the loop has
\* seen the controller stop.
nvmeWriteConfig ==
  /\ \/ Goto("disable", "off") /\ dev' = [dev EXCEPT !.enable = FALSE]
     \/ ~status /\ Goto("off", "setup") /\ UNCHANGED dev
     \/ Goto("setup", "on") /\ dev' = [dev EXCEPT !.enable = TRUE]
     \/ status /\ Goto("on", "put") /\ UNCHANGED dev
  /\ UNCHANGED <<k, drv, status, response, sub, com, seen, irq, stray>>

putAdminCommand ==
  /\ Goto("put", "ring")
  /\ sub' = [sub EXCEPT ![drv.tail] = Commands[k]]
  /\ UNCHANGED <<k, drv, status, response, com, dev, seen, irq, stray>>

\* Mutant: two entries are announced.
ringAdminSubTwo ==
  LET tail == (drv.tail + 2) % admin_queue_size
  IN  /\ Goto("ring", "hlt")
      /\ drv' = [drv EXCEPT !.tail = tail]
      /\ dev' = [dev EXCEPT !.sub_tail = tail]
      /\ UNCHANGED <<k, status, response, sub, com, seen, irq, stray>>

ringAdminSub ==
  LET tail == (drv.tail + 1) % admin_queue_size
  IN  /\ Goto("ring", "hlt")
      /\ drv' = [drv EXCEPT !.tail = tail]
      /\ dev' = [dev EXCEPT !.sub_tail = tail]
      /\ UNCHANGED <<k, status, response, sub, com, seen, irq, stray>>

\* An interrupt that was taken before the hlt does not end it.
hlt ==
  /\ Goto("hlt", "halted")
  /\ UNCHANGED <<k, drv, status, response, sub, com, dev, seen, irq, stray>>

getAdminResponse ==
  /\ Goto("get", "ringcom")
  /\ response' = com[drv.head]
  /\ UNCHANGED <<k, drv, status, sub, com, dev, seen, irq, stray>>

\* Mutant: the phase is not turned when the head wraps.
ringAdminComFlat ==
  LET head == (drv.head + 1) % admin_queue_size
  IN  /\ Goto("ringcom", IF k = Len(Commands) THEN "done" ELSE "put")
      /\ k' = k + 1
      /\ drv' = [drv EXCEPT !.head = head]
      /\ dev' = [dev EXCEPT !.com_head = head]
      /\ UNCHANGED <<status, response, sub, com, seen, irq, stray>>

ringAdminCom ==
  LET head == (drv.head + 1) % admin_queue_size
  IN  /\ Goto("ringcom", IF k = Len(Commands) THEN "done" ELSE "put")
      /\ k' = k + 1
      /\ drv' = [drv EXCEPT !.head = head, !.phase = IF head = 0 THEN 1 - @ ELSE @]
      /\ dev' = [dev EXCEPT !.com_head = head]
      /\ UNCHANGED <<status, response, sub, com, seen, irq, stray>>

Driver == nvmeReadStatus \/ nvmeWriteConfig \/ putAdminCommand \/ ringAdminSub \/ hlt
          \/ getAdminResponse \/ ringAdminCom

Wake == pc' = IF pc = "halted" THEN "get" ELSE pc

\* The handler only acknowledges; the interrupt ends the hlt.
irqNVMeHandler ==
  /\ irq /\ irq' = FALSE
  /\ Wake
  /\ UNCHANGED <<k, drv, status, response, sub, com, dev, seen, stray>>

OtherInterrupt ==
  /\ pc = "halted" /\ Wake
  /\ stray' = TRUE
  /\ UNCHANGED <<k, drv, status, response, sub, com, dev, seen, irq>>

-----------------------------------------------------------------------------
(* The controller.                                                         *)

\* ready follows enable.
DevFollow ==
  /\ dev.ready # dev.enable
  /\ dev' = [dev EXCEPT !.ready = dev.enable]
  /\ UNCHANGED <<pc, k, drv, status, response, sub, com, seen, irq, stray>>

DevFetch ==
  /\ dev.ready /\ dev.work = "none" /\ dev.sub_head # dev.sub_tail
  /\ dev' = [dev EXCEPT !.work = sub[dev.sub_head],
                        !.sub_head = (@ + 1) % admin_queue_size]
  /\ seen' = Append(seen, sub[dev.sub_head])
  /\ UNCHANGED <<pc, k, drv, status, response, sub, com, irq, stray>>

DevComplete ==
  LET tail == (dev.com_tail + 1) % admin_queue_size
  IN  /\ dev.work # "none" /\ tail # dev.com_head
      /\ com' = [com EXCEPT ![dev.com_tail] = <<dev.work, dev.phase>>]
      /\ dev' = [dev EXCEPT !.work = "none", !.com_tail = tail,
                            !.phase = IF tail = 0 THEN 1 - @ ELSE @]
      /\ irq' = TRUE
      /\ UNCHANGED <<pc, k, drv, status, response, sub, seen, stray>>

Next == Driver \/ irqNVMeHandler \/ OtherInterrupt \/ DevFollow \/ DevFetch \/ DevComplete

Spec == Init /\ [][Next]_vars

-----------------------------------------------------------------------------
(* Properties.                                                             *)

\* The controller gets every command that was submitted, once and in order, and
\* so the submission queue after its completion queue: no slot of the ring is
\* used again before it was fetched, however early the hlt ended.
CommandsKept ==
  /\ \A i \in DOMAIN seen : seen[i] = Commands[i]
  /\ Len(seen) <= IF k > Len(Commands) THEN k - 1 ELSE k

\* The queue registers are written while the controller is stopped.
SetUpWhileOff == pc = "setup" /\ pc' # "setup" => ~dev.ready /\ ~dev.enable

\* As long as no other interrupt than the controller's has ended a hlt, the
\* entry that initNVMe reads is the answer to the command it has just
\* submitted, with the phase admin_new_phase, although the phase is not
\* tested; and the head doorbell keeps up with the answers.
ResponseInStep ==
  ~stray => /\ pc = "ringcom" => response = <<Commands[k], drv.phase>>
            /\ pc \in {"put", "ring"} => drv.head = dev.com_tail /\ drv.phase = dev.phase
=============================================================================
