------------------------------- MODULE Lease --------------------------------
(***************************************************************************)
(* What a voucher code promises, without requests, handlers or the portal: *)
(* a lease of the network.  It begins with the first redemption, is held   *)
(* by one device from the first redemption that names one, and opens the   *)
(* network to its holder until its time is up, or as long thereafter as    *)
(* the router waits for an answer.  Whoever is let in stays for at most    *)
(* the plan's duration.                                                    *)
(***************************************************************************)
EXTENDS Naturals

CONSTANTS
    Codes, Devices, NoName, NoMac, Unlimited,
    Duration, Shelf, RadiusTimeout, MacMayBeMissing

VARIABLES
    now,
    lease,      \* lease[c]: what has become of code c
    online      \* online[d]: the code that d is online with, and until when

lvars == <<now, lease, online>>

NotIssued == [status |-> "none", redeemed |-> 0, mac |-> NoMac, expires |-> Unlimited]
Away == [name |-> NoName, until |-> Unlimited]
Limited(c) == Duration[c] \notin {0, Unlimited}

Init ==
    /\ now = 0
    /\ lease = [c \in Codes |-> NotIssued]
    /\ online = [d \in Devices |-> Away]

(* A code may be on the shelf for a while, or for good.                     *)
Issue(c) ==
    /\ lease[c].status = "none"
    /\ \E e \in {Unlimited} \cup {now + s : s \in {Shelf} \ {Unlimited}} :
          lease' = [lease EXCEPT ![c] = [NotIssued EXCEPT !.status = "unused",
                                                          !.expires = e]]
    /\ UNCHANGED <<now, online>>

Begin(c, mac) ==
    /\ lease[c].status = "unused"
    /\ lease[c].expires # Unlimited => now < lease[c].expires
    /\ mac = NoMac => MacMayBeMissing
    /\ lease' = [lease EXCEPT ![c] =
          [@ EXCEPT !.status = "used", !.redeemed = now, !.mac = mac]]
    /\ UNCHANGED <<now, online>>

(* A lease that nobody holds yet finds its holder before it is over.        *)
Hold(c, mac) ==
    /\ lease[c].status = "used" /\ lease[c].mac = NoMac
    /\ Duration[c] # Unlimited => now < lease[c].redeemed + Duration[c]
    /\ lease' = [lease EXCEPT ![c].mac = mac]
    /\ UNCHANGED <<now, online>>

Enter(d, c) ==
    /\ online[d] = Away
    /\ lease[c].status = "used"
    /\ MacMayBeMissing \/ lease[c].mac = d
    /\ Limited(c) => now < lease[c].redeemed + Duration[c] + RadiusTimeout
    /\ online' = [online EXCEPT ![d] =
          [name |-> c, until |-> IF Limited(c) THEN now + Duration[c] ELSE Unlimited]]
    /\ UNCHANGED <<now, lease>>

Leave(d) ==
    /\ online[d] # Away
    /\ online' = [online EXCEPT ![d] = Away]
    /\ UNCHANGED <<now, lease>>

Tick ==
    /\ now' = now + 1
    /\ online' = [d \in Devices |-> IF online[d].until = now' THEN Away ELSE online[d]]
    /\ UNCHANGED lease

Next ==
    \/ Tick
    \/ \E c \in Codes :
          \/ Issue(c)
          \/ \E mac \in Devices \cup {NoMac} : Begin(c, mac) \/ Hold(c, mac)
          \/ \E d \in Devices : Enter(d, c)
    \/ \E d \in Devices : Leave(d)

Spec == Init /\ [][Next]_lvars
=============================================================================
