--------------------------------- MODULE Arp ---------------------------------
(***************************************************************************)
(* The ARP cache of kernel/net/arp.c.  The entries in use are kept in the  *)
(* order of their timestamps, the oldest first; free entries are not kept. *)
(***************************************************************************)
EXTENDS Integers, Sequences

CONSTANTS
  ARP_CACHE_SIZE,
  NoAddr            \* an all-zero hardware address

ASSUME ArpConstants == ARP_CACHE_SIZE \in Nat \ {0}

VARIABLE caches

Entry(state, pa, ha) == [state |-> state, pa |-> pa, ha |-> ha]

\* arp_cache_select()
Cached(c, pa) == \E i \in 1..Len(c) : c[i].pa = pa
EntryOf(c, pa) == c[CHOOSE i \in 1..Len(c) : c[i].pa = pa]
Without(c, pa) == SelectSeq(c, LAMBDA e : e.pa # pa)

\* arp_cache_alloc(): the oldest entry makes room.
Room(c) == IF Len(c) < ARP_CACHE_SIZE THEN c ELSE Tail(c)

\* arp_cache_update() and arp_cache_insert()
arp_cache_update(c, pa, ha) == Append(Without(c, pa), Entry("RESOLVED", pa, ha))
arp_cache_insert(c, pa, ha) == Append(Room(c), Entry("RESOLVED", pa, ha))

\* The cache after the sender's addresses of a message for tpa are merged.
Known_Never(c, pa) == FALSE
Known(c, pa) == Cached(c, pa)
Merged(c, spa, sha, forme) ==
  IF Known(c, spa) THEN arp_cache_update(c, spa, sha)
  ELSE IF forme THEN arp_cache_insert(c, spa, sha)
  ELSE c

\* arp_resolve(): what it finds, and the cache it leaves.
Resolved_Any(c, pa) == Cached(c, pa)
Resolved(c, pa) == Cached(c, pa) /\ EntryOf(c, pa).state = "RESOLVED"
Resolving(c, pa) == IF Cached(c, pa) THEN c ELSE Append(Room(c), Entry("INCOMPLETE", pa, NoAddr))

\* arp_timer_handler(): every entry of more than ARP_CACHE_TIMEOUT goes.
arp_timer ==
  \E n \in 1..Len(caches) : caches' = SubSeq(caches, n + 1, Len(caches))
==============================================================================
