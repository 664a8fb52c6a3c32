-------------------------------- MODULE Arp --------------------------------
(***************************************************************************)
(* The address cache of arp.c: for an IP address the MAC address that was  *)
(* last heard from it, in entries that are replaced in turn.               *)
(***************************************************************************)
EXTENDS Integers, FiniteSets

CONSTANTS
    ArpSize,   \* ARP_CACHE_SIZE
    Hosts,     \* the IP addresses
    Macs,      \* the MAC addresses
    NoEntry    \* arp_cache_valid is not set

Entries == [ip : Hosts, mac : Macs]

ASSUME ArpAssumption == ArpSize \in Nat \ {0} /\ NoEntry \notin Entries /\ NoEntry \notin Macs

ArpInit == [entry |-> [i \in 0 .. ArpSize - 1 |-> NoEntry], next |-> 0]

EntriesOf(cache, ip) ==
    {i \in DOMAIN cache.entry : cache.entry[i] # NoEntry /\ cache.entry[i].ip = ip}

\* The first entry with the address.
EntryOf(cache, ip) ==
    CHOOSE i \in EntriesOf(cache, ip) : \A j \in EntriesOf(cache, ip) : i <= j

\* arp_lookup_mac: is the address known, and what it is
Known(cache, ip) == EntriesOf(cache, ip) # {}
MacOf(cache, ip) == cache.entry[EntryOf(cache, ip)].mac

\* arp_cache_store without the search for the sender (for the mutants).
StoreAgain(cache, ip, mac) ==
    [entry |-> [cache.entry EXCEPT ![cache.next] = [ip |-> ip, mac |-> mac]],
     next  |-> (cache.next + 1) % ArpSize]

\* arp_cache_store: the sender's entry is overwritten, or the next one.
Store(cache, ip, mac) ==
    LET i == IF Known(cache, ip) THEN EntryOf(cache, ip) ELSE cache.next
    IN  [entry |-> [cache.entry EXCEPT ![i] = [ip |-> ip, mac |-> mac]],
         next  |-> IF Known(cache, ip) THEN cache.next ELSE (cache.next + 1) % ArpSize]
=============================================================================
