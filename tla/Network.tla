------------------------------- MODULE Network -------------------------------
(* wifi.c on OpenBSD and FreeBSD, and ip.c: what each function asks for, in  *)
(* which order, and what it makes of the answers.                            *)
EXTENDS CInts, Sequences

CONSTANTS
    Noise,      \* dBm of noise at a FreeBSD station
    NULL        \* no value, and no access point

WifiFunctions == {"wifi_perc", "wifi_essid"}
IpFunctions   == {"ipv4", "ipv6", "up"}

-----------------------------------------------------------------------------
(* wifi.c                                                                    *)

\* net80211: the interface is associated with ap, and the kernel has a node for
\* each access point that is known.  A request about any other address fails.
\* OpenBSD drivers have a scale of their own, or dBm if max_rssi is 0.
net80211(w) ==
    LET clip(n) == CASE n < 0 -> 0 [] n > w.max_rssi -> w.max_rssi [] OTHER -> n
        node(x) == [nwid |-> x, max_rssi |-> w.max_rssi, dbm |-> w.dbm[x],
                    rssi |-> IF w.max_rssi = 0 THEN w.dbm[x] ELSE clip(w.dbm[x] + 100)]
    IN  [bssid |-> w.ap,
         ssid  |-> IF w.ap = NULL THEN "" ELSE w.ap,
         nodes |-> [x \in w.known |-> node(x)]]

\* OpenBSD does not ask for a node without an address.
wifi_reads(os, f, g) ==
    CASE os = "freebsd" /\ f = "wifi_essid"                         -> <<{"ssid"}>>
      [] os = "openbsd" /\ "bssid" \in DOMAIN g /\ g.bssid = NULL   -> <<{"bssid"}>>
      [] OTHER                                                      -> <<{"bssid"}, {"nodes"}>>

RSSI_TO_PERC(rssi) ==
    CASE rssi >= -50 -> 100 [] rssi <= -100 -> 0 [] OTHER -> 2 * (rssi + 100)

\* An error counts only if nr_rssi is not 0, which it was set to: a request
\* that fails leaves all zeros behind and is taken for an answer.
load_ieee80211_nodereq(g) ==
    IF g.bssid \in DOMAIN g.nodes THEN g.nodes[g.bssid] ELSE [nwid |-> "", max_rssi |-> 0, rssi |-> 0]

wifi_openbsd(f, g) ==
    IF g.bssid = NULL THEN NULL
    ELSE LET nr == load_ieee80211_nodereq(g)
         IN  CASE f = "wifi_essid"                    -> nr.nwid
               [] f = "wifi_perc" /\ nr.max_rssi # 0  -> (nr.rssi * 100) \div nr.max_rssi
               [] f = "wifi_perc" /\ nr.max_rssi = 0  -> RSSI_TO_PERC(nr.rssi)

\* The signal is told in halves of a dBm above the noise.
wifi_freebsd(f, g) ==
    CASE f = "wifi_essid"                                      -> g.ssid
      [] f = "wifi_perc" /\ g.bssid \notin DOMAIN g.nodes      -> NULL
      [] f = "wifi_perc" /\ g.bssid \in DOMAIN g.nodes         ->
            LET isi_rssi == 2 * (g.nodes[g.bssid].dbm - Noise)
            IN  RSSI_TO_PERC(Noise + Quotient(isi_rssi, 2))

wifi(os, f, g) == {CASE os = "openbsd" -> wifi_openbsd(f, g) [] os = "freebsd" -> wifi_freebsd(f, g)}

-----------------------------------------------------------------------------
(* ip.c.  getifaddrs lists addresses, of some interfaces and families, and   *)
(* entries without an address, of which the family is NULL.                  *)

ifaddrs(w) == [list |-> w.list]

\* The first entry of the interface that will do.
ip(list, interface, sa_family) ==
    LET ks == {k \in DOMAIN list : list[k].name = interface /\ list[k].family = sa_family}
    IN  IF ks = {} THEN NULL ELSE list[CHOOSE k \in ks : \A j \in ks : k <= j].addr

\* Of an interface that is listed with an address.  The flags of that entry are
\* read after freeifaddrs: they are whatever is there then.
listed(list, interface) == \E k \in DOMAIN list : list[k].family # NULL /\ list[k].name = interface
up(list, interface) == IF listed(list, interface) THEN {"up", "down"} ELSE {NULL}

ip_or_up(f, g, interface) ==
    CASE f = "ipv4" -> {ip(g.list, interface, "inet")}
      [] f = "ipv6" -> {ip(g.list, interface, "inet6")}
      [] f = "up"   -> up(g.list, interface)

-----------------------------------------------------------------------------
(* What they are to show: the network that the interface is associated with  *)
(* and its signal, from -100 to -50 dBm; an address that the interface has,  *)
(* and nothing for an interface that is not there.                           *)

wifi_truth(os, f, w) ==
    LET range(n) == CASE n < 0 -> 0 [] n > 100 -> 100 [] OTHER -> n
    IN  CASE w.ap = NULL                     -> IF os = "freebsd" /\ f = "wifi_essid" THEN "" ELSE NULL
          [] w.ap # NULL /\ f = "wifi_essid" -> w.ap
          [] w.ap # NULL /\ f = "wifi_perc"  -> range(2 * (w.dbm[w.ap] + 100))

ip_truth(f, w, interface) ==
    LET its(family) == {k \in DOMAIN w.list : w.list[k].name = interface /\ w.list[k].family = family}
        all(ks) == IF ks = {} THEN {NULL} ELSE {w.list[k].addr : k \in ks}
    IN  CASE f = "ipv4" -> all(its("inet"))
          [] f = "ipv6" -> all(its("inet6"))
          [] f = "up"   -> {NULL}

\* Where up reads what it has freed, and may show anything.
ip_gap(f, w, interface) == f = "up" /\ listed(w.list, interface)
=============================================================================
