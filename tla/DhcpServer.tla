----------------------------- MODULE DhcpServer -----------------------------
(***************************************************************************)
(* The DHCP server of the access point (src/ipstack/dhcpserver.c): a table *)
(* of DHCPS_MAX_IP leases, read and written by one callback,               *)
(* dhcp_server_process(), which is atomic.  Clients are the stations that  *)
(* talk to it; any datagram may be lost, and a client may start over at    *)
(* any time.                                                               *)
(*                                                                         *)
(* Time is the 32-bit millisecond counter, which wraps; a lease keeps only *)
(* the upper 16 bits of the time at which it ends.  The counter does not   *)
(* move while a datagram is handled.                                       *)
(***************************************************************************)
EXTENDS Integers

CONSTANTS
  Clients,   \* hardware addresses (chaddr)
  NoMac,     \* six zero bytes
  NumSlots,  \* DHCPS_MAX_IP (8): addresses of the server
  Ticks,     \* values of cyw43_hal_ticks_ms() (2^32)
  Grain,     \* ticks in a unit of `expiry` (2^16)
  Lease,     \* DEFAULT_LEASE_TIME_S * 1000 (86 400 000)
  Reboot     \* clients may ask for an address that was not offered to them

ASSUME ClientAssumption == NoMac \notin Clients /\ NumSlots \in Nat
\* A lease is well below half of the range: 86 400 000 + 2^17 <= 2^31.
ASSUME TimeAssumption ==
  /\ Ticks \in Nat \ {0} /\ Grain \in Nat \ {0} /\ Lease \in Nat
  /\ 2 * (Lease + 2 * Grain) <= Ticks
ASSUME RebootAssumption == Reboot \in BOOLEAN

Slots == 0..(NumSlots - 1)

VARIABLES
  now,       \* cyw43_hal_ticks_ms()
  mac,       \* lease[i].mac
  expiry,    \* lease[i].expiry
  offered,   \* the address a client was offered last, {} or one slot
  left       \* how long a client that got an ACK may still use a slot

dhcp_vars == <<now, mac, expiry, offered, left>>

\* dhcp_server_init()
DhcpInit ==
  /\ now \in 0..(Ticks - 1)
  /\ mac = [i \in Slots |-> NoMac]
  /\ expiry = [i \in Slots |-> 0]
  /\ offered = [c \in Clients |-> {}]
  /\ left = [c \in Clients |-> [i \in Slots |-> 0]]

SlipRound(e) == e * Grain
RoundUp(e) == e * Grain + (Grain - 1)

\* expiry << 16 | 0xffff, less the time, as a 32-bit number
Until(e, t) == (RoundUp(e) - t) % Ticks

\* (int32_t)(expiry - cyw43_hal_ticks_ms()) < 0
Expired(i) == 2 * Until(expiry[i], now) >= Ticks

Own(c) == {i \in Slots : mac[i] = c}

\* The slots that the loop sees before it comes to one of the client's own.
Scanned(c) == {i \in Slots : \A k \in Own(c) : i < k}

Reusable(c) == {i \in Scanned(c) : mac[i] = NoMac \/ Expired(i)}

\* The first of a set of slots, as a set; {} if there is none.
First(S) == {i \in S : \A k \in S : i <= k}

SlipCleared(c) == {}
SlipAllCleared(c) == Scanned(c)
Cleared(c) == First(Reusable(c))

\* The address of the answer; an own address wins over one found before it.
SlipChoice(c) == First(Own(c) \cup Reusable(c))
Choice(c) == IF Own(c) # {} THEN First(Own(c)) ELSE First(Reusable(c))

\* DHCPDISCOVER: the first slot found is cleared if it has expired, even if the
\* client's own address is found later.  Without an address there is no answer.
\* The OFFER may be lost.
Discover(c) ==
  /\ mac' = [i \in Slots |-> IF i \in Cleared(c) THEN NoMac ELSE mac[i]]
  /\ \/ Choice(c) # {} /\ offered' = [offered EXCEPT ![c] = Choice(c)]
     \/ UNCHANGED offered
  /\ UNCHANGED <<now, expiry, left>>

\* A slot that the client may ask for: the one offered, or with Reboot any.
Asks(c, i) == Reboot \/ i \in offered[c]

FreeFor(c, i) == mac[i] \in {c, NoMac}

\* The time at which a lease given now ends.
Stamp == ((now + Lease) % Ticks) \div Grain

\* DHCPREQUEST for an address that is the client's or nobody's.  The client
\* may use it when the ACK arrives; if the ACK is lost it has nothing.
Request(c, i) ==
  /\ Asks(c, i) /\ FreeFor(c, i)
  /\ mac' = [mac EXCEPT ![i] = c]
  /\ expiry' = [expiry EXCEPT ![i] = Stamp]
  /\ \/ /\ left' = [left EXCEPT ![c][i] = Lease]
        /\ offered' = [offered EXCEPT ![c] = {}]
     \/ UNCHANGED <<left, offered>>
  /\ UNCHANGED now

\* DHCPREQUEST for an address in use: "Should be NACK", but there is no answer,
\* and the client starts over after a time-out.
Refused(c, i) ==
  /\ Asks(c, i) /\ ~FreeFor(c, i)
  /\ offered' = [offered EXCEPT ![c] = {}]
  /\ UNCHANGED <<now, mac, expiry, left>>

\* A millisecond passes, for the server and for the clients.
Tick ==
  /\ now' = (now + 1) % Ticks
  /\ left' = [c \in Clients |-> [i \in Slots |->
                IF left[c][i] > 0 THEN left[c][i] - 1 ELSE 0]]
  /\ UNCHANGED <<mac, expiry, offered>>

DhcpNext ==
  \/ Tick
  \/ \E c \in Clients :
       \/ Discover(c)
       \/ \E i \in Slots : Request(c, i) \/ Refused(c, i)

DhcpSpec == DhcpInit /\ [][DhcpNext]_dhcp_vars

\* The ACK of a client's request arrives.
Acked(c) == \E i \in Slots : Request(c, i) /\ left'[c][i] = Lease
\* The OFFER to a client arrives.
Answered(c) == Discover(c) /\ offered'[c] # {}

\* A client without an address asks again and again, and not every datagram is
\* lost.  Nothing is assumed of the other clients or of time.
DhcpFairness == \A c \in Clients : SF_dhcp_vars(Answered(c)) /\ SF_dhcp_vars(Acked(c))

DhcpFairSpec == DhcpSpec /\ DhcpFairness

(***************************************************************************)
(* Properties.                                                             *)
(***************************************************************************)
\* In particular, expiry has the upper bits of the clock and no more.
TypeOK ==
  /\ now \in 0..(Ticks - 1)
  /\ mac \in [Slots -> Clients \cup {NoMac}]
  /\ expiry \in [Slots -> Nat] /\ \A i \in Slots : expiry[i] * Grain < Ticks
  /\ offered \in [Clients -> SUBSET Slots]
  /\ left \in [Clients -> [Slots -> 0..Lease]]

\* Two clients never use one address: "IP expired, reuse it" holds for no slot
\* whose client still counts on it, over the wrap of the clock and the grain of
\* 65.5 s, with DISCOVERs and lost answers at any time.
Exclusive ==
  \A i \in Slots : \A c, d \in Clients :
    left[c][i] > 0 /\ left[d][i] > 0 => c = d

\* Why: the slot of a lease that runs carries its client, and the server sees at
\* least as much time left as the client, and less than half of the clock.
LeaseKnown ==
  \A c \in Clients : \A i \in Slots :
    left[c][i] > 0 => /\ mac[i] = c
                      /\ left[c][i] <= Until(expiry[i], now)
                      /\ 2 * Until(expiry[i], now) < Ticks

DhcpInv == TypeOK /\ LeaseKnown

\* A client that asks for what it was offered never takes up two addresses, so
\* that as many clients as there are addresses can be served: "MAC match, use
\* this IP address", also when another slot comes first.
OneSlotEach ==
  \A i, k \in Slots : mac[i] # NoMac /\ mac[i] = mac[k] => i = k

\* Why: a client is offered one slot, and the one it has, if it has one.
OfferKept ==
  \A c \in Clients :
    /\ \A i, k \in offered[c] : i = k
    /\ \A i \in Slots : mac[i] = c => offered[c] \subseteq {i}

\* With no more clients than addresses each that keeps asking is served again
\* and again, although offers are not recorded, two clients may be offered the
\* same address and nobody is told that a request was refused.
EachServed == \A c \in Clients : []<>(\E i \in Slots : left[c][i] > 0)
=============================================================================
