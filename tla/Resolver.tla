------------------------------ MODULE Resolver ------------------------------
(***************************************************************************)
(* Requests to other servers: from the name of a server to the address     *)
(* that is dialled. The name is resolved to a destination (a host and a    *)
(* port), through .well-known delegation and SRV records. Destinations     *)
(* are cached by name; the addresses of hosts, or of the hosts that stand  *)
(* in for them, are cached by host. The two expire apart. What the names   *)
(* mean does not change here: only lookups fail.                           *)
(*                                                                         *)
(* A name, delegated or not, is [host, port]; port 0 if it has none.       *)
(***************************************************************************)
EXTENDS Integers, Sequences, FiniteSets, Tasks

CONSTANTS Name,           \* the names of servers
          Host,           \* hosts; those in Literal are addresses
          Literal,
          World,          \* what DNS and the servers say: records of well_known, srv and ip
          NoName, NoHost, NoAddr,
          MaxDnsFaults    \* bound: lookups that fail

\* Every server answers under the name of a host, or an address.
ASSUME ResolverAssumption ==
    LET Authority == [host : Host \cup Literal, port : Nat]
    IN /\ Host \cap Literal = {} /\ NoHost \notin Host \cup Literal /\ NoName \notin Authority
       /\ Name \subseteq Authority
       /\ \A w \in World :
             /\ \A n \in Name : w.well_known[n] \in Authority \cup {NoName}
             /\ \A h \in Host : w.srv[h] \in Authority \cup {NoName}

VARIABLES dns,            \* what they say in this behaviour
          destinations,   \* by name: the destination, or NoDestination; and whether it is valid
          overrides,      \* by host: the address, the host it was looked up for, whether it is valid
          dialled,        \* the last connection: name and address
          cleared,        \* the caches have been cleared
          unanswered,     \* names whose .well-known was once not answered
          dns_faults

resolverVars == <<dns, destinations, overrides, dialled, cleared, unanswered, dns_faults>>

NoDestination == [host |-> NoHost, port |-> 0, valid |-> FALSE]
NoOverride == [addr |-> NoAddr, overriding |-> NoHost, valid |-> FALSE]
default_port == 8448

is_literal(h) == h \in Literal
lookup_ip(h) == IF is_literal(h) THEN h ELSE dns.ip[h]
dns_fails == dns_faults < MaxDnsFaults /\ dns_faults' = dns_faults + 1

-----------------------------------------------------------------------------
(* From a name to a destination.                                           *)

get_ip_with_port(n) == [host |-> n.host, port |-> IF n.port = 0 THEN default_port ELSE n.port]
add_port_to_hostname(n) == get_ip_with_port(n)

\* Looks up the address of a host, unless one is cached.
lookup(unter, host) == <<[do |-> "query_and_cache_override", unter |-> unter, host |-> host]>>
resolved(n, host, port) == <<[do |-> "set_destination", name |-> n, host |-> host, port |-> port]>>

cached_destination(n) == destinations[n].valid

\* The destination is in the cache, or resolved. (The lock against resolving a name twice at a
\* time is not awaited.)
lookup_actual_dest(n) ==
    <<IF cached_destination(n) THEN [do |-> "perform", name |-> n, dest |-> destinations[n]]
      ELSE [do |-> "resolve_actual_dest", name |-> n]>>

\* A request to a server that federation is allowed with.
execute_on(t, n) == begins(t, lookup_actual_dest(n)) /\ UNCHANGED resolverVars

resolve_actual_dest(t) ==
    /\ next_is(t, "resolve_actual_dest")
    /\ LET n == now(t).name
       IN goes_on(t, IF is_literal(n.host) THEN resolved(n, n.host, get_ip_with_port(n).port)
                     ELSE IF n.port # 0 THEN lookup(n.host, n.host) \o resolved(n, n.host, n.port)
                     ELSE lookup(n.host, n.host) \o <<[do |-> "request_well_known", name |-> n]>>)
    /\ UNCHANGED resolverVars

\* No answer counts as no delegation.
request_well_known(t) ==
    /\ next_is(t, "request_well_known")
    /\ LET n == now(t).name
           d == dns.well_known[n]
           undelegated == <<[do |-> "actual_dest_4", name |-> n]>>
           delegated == IF is_literal(d.host) THEN resolved(n, d.host, get_ip_with_port(d).port)
                        ELSE IF d.port # 0 THEN lookup(d.host, d.host) \o resolved(n, d.host, d.port)
                        ELSE <<[do |-> "actual_dest_3_3", name |-> n]>>
       IN \/ /\ goes_on(t, IF d = NoName THEN undelegated ELSE delegated)
             /\ UNCHANGED <<unanswered, dns_faults>>
          \/ /\ dns_fails /\ goes_on(t, undelegated) /\ unanswered' = unanswered \cup {n}
    /\ UNCHANGED <<dns, destinations, overrides, dialled, cleared>>

\* The SRV record of a host: its address is that of the target, looked up under the host's name.
srv(n, h) == LET target == dns.srv[h]
             IN IF target = NoName THEN lookup(h, h) \o resolved(n, h, default_port)
                ELSE lookup(h, target.host) \o resolved(n, h, target.port)

actual_dest_3_3(t) ==
    /\ next_is(t, "actual_dest_3_3")
    /\ goes_on(t, srv(now(t).name, dns.well_known[now(t).name].host))
    /\ UNCHANGED resolverVars
actual_dest_4(t) ==
    /\ next_is(t, "actual_dest_4")
    /\ goes_on(t, srv(now(t).name, now(t).name.host))
    /\ UNCHANGED resolverVars

\* A host without an address is not an error.
query_and_cache_override(t) ==
    /\ next_is(t, "query_and_cache_override")
    /\ LET unter == now(t).unter
           host == now(t).host
       IN overrides' = IF overrides[unter].valid \/ lookup_ip(host) = NoAddr THEN overrides
                       ELSE [overrides EXCEPT ![unter] =
                               [addr |-> lookup_ip(host), overriding |-> IF host = unter THEN NoHost ELSE host,
                                valid |-> TRUE]]
    /\ steps_on(t)
    /\ UNCHANGED <<dns, destinations, dialled, cleared, unanswered, dns_faults>>

set_destination(t) ==
    /\ next_is(t, "set_destination")
    /\ LET dest == [host |-> now(t).host, port |-> now(t).port, valid |-> TRUE]
       IN /\ destinations' = [destinations EXCEPT ![now(t).name] = dest]
          /\ goes_on(t, <<[do |-> "perform", name |-> now(t).name, dest |-> dest]>>)
    /\ UNCHANGED <<dns, overrides, dialled, cleared, unanswered, dns_faults>>

\* A lookup that times out ends the request; so does a shutdown between two of them.
handle_resolve_error(t) ==
    /\ \/ next_is(t, "actual_dest_3_3") \/ next_is(t, "actual_dest_4")
       \/ next_is(t, "query_and_cache_override") /\ ~overrides[now(t).unter].valid
    /\ dns_fails /\ ends_with(t, <<>>)
    /\ UNCHANGED <<dns, destinations, overrides, dialled, cleared, unanswered>>

-----------------------------------------------------------------------------
(* From a destination to an address.                                       *)

hooked_resolve_host(h) ==
    IF overrides[h].valid THEN overrides[h].addr ELSE lookup_ip(h)

\* The host that stood in for one whose entry has expired is looked up again.
hooked_resolve(h) ==
    IF overrides[h].valid THEN overrides[h].addr
    ELSE IF overrides[h].overriding # NoHost THEN lookup_ip(overrides[h].overriding)
    ELSE lookup_ip(h)

\* The port is the destination's, whatever port the entry of the host has.
perform(t) ==
    /\ next_is(t, "perform") /\ steps_on(t)
    /\ LET dest == now(t).dest
           addr == IF is_literal(dest.host) THEN dest.host ELSE hooked_resolve(dest.host)
       IN dialled' = [name |-> now(t).name, addr |-> addr, port |-> dest.port]
    /\ UNCHANGED <<dns, destinations, overrides, cleared, unanswered, dns_faults>>

\* The connection fails, or the server is shutting down.
handle_dial_error(t) ==
    /\ next_is(t, "perform") /\ dns_fails /\ steps_on(t)
    /\ UNCHANGED <<dns, destinations, overrides, dialled, cleared, unanswered>>

-----------------------------------------------------------------------------
\* Entries expire: those of hosts after 6 to 12 hours, those of names after 18 to 36.
expires(n) ==
    /\ destinations[n].valid
    /\ destinations' = [destinations EXCEPT ![n].valid = FALSE]
    /\ UNCHANGED <<dns, overrides, dialled, cleared, unanswered, dns_faults, taskVars>>
override_expires(h) ==
    /\ overrides[h].valid
    /\ overrides' = [overrides EXCEPT ![h].valid = FALSE]
    /\ UNCHANGED <<dns, destinations, dialled, cleared, unanswered, dns_faults, taskVars>>

\* The admin clears both caches, one after the other in either order.
clear_destinations == <<[do |-> "clear_destinations"]>>
clear_overrides == <<[do |-> "clear_overrides"]>>
clear_cache(t) ==
    /\ begins(t, clear_destinations \o clear_overrides) \/ begins(t, clear_overrides \o clear_destinations)
    /\ UNCHANGED resolverVars
clears(t) ==
    /\ \/ /\ next_is(t, "clear_destinations")
          /\ destinations' = [n \in Name |-> NoDestination] /\ UNCHANGED overrides
       \/ /\ next_is(t, "clear_overrides")
          /\ overrides' = [h \in Host |-> NoOverride] /\ UNCHANGED destinations
    /\ steps_on(t) /\ cleared' = TRUE
    /\ UNCHANGED <<dns, dialled, unanswered, dns_faults>>

no_requests ==
    /\ destinations = [n \in Name |-> NoDestination] /\ overrides = [h \in Host |-> NoOverride]
    /\ dialled = [name |-> NoName, addr |-> NoAddr, port |-> 0]
    /\ cleared = FALSE /\ unanswered = {} /\ dns_faults = 0
InitResolver == no_requests /\ dns \in World
IdleResolver == no_requests /\ dns = CHOOSE w \in World : TRUE

resolverDone == all_idle /\ started = MaxStarted /\ UNCHANGED <<resolverVars, taskVars>>

NextResolver ==
    \/ \E t \in Task :
          \/ \E n \in Name : execute_on(t, n)
          \/ resolve_actual_dest(t) \/ request_well_known(t) \/ actual_dest_3_3(t) \/ actual_dest_4(t)
          \/ query_and_cache_override(t) \/ set_destination(t) \/ handle_resolve_error(t)
          \/ perform(t) \/ handle_dial_error(t) \/ clear_cache(t) \/ clears(t)
    \/ \E n \in Name : expires(n)
    \/ \E h \in Host : override_expires(h)
    \/ resolverDone

SpecResolver == InitResolver /\ InitTasks(0) /\ [][NextResolver]_<<resolverVars, taskVars>>

-----------------------------------------------------------------------------
(* What the rules for server names say.                                    *)

\* Who answers for a name that delegates, or does not; the address and the port.
authority(n, delegates) ==
    IF delegates /\ dns.well_known[n] # NoName /\ n.port = 0 /\ ~is_literal(n.host) THEN dns.well_known[n] ELSE n
by_srv(h) == LET target == dns.srv[h]
             IN IF target = NoName THEN <<lookup_ip(h), default_port>> ELSE <<lookup_ip(target.host), target.port>>
by_rules(n, delegates) ==
    LET m == authority(n, delegates)
    IN IF is_literal(m.host) \/ m.port # 0 THEN <<lookup_ip(m.host), get_ip_with_port(m).port>> ELSE by_srv(m.host)
delegations(n) == IF n \in unanswered THEN BOOLEAN ELSE {TRUE}

\* A host that has an address of its own besides an SRV record.
two_addresses == {h \in Host : ~is_literal(h) /\ dns.srv[h] # NoName /\ lookup_ip(h) # NoAddr}

\* The resolution is "implemented according to the specification": whatever is cached or has
\* expired, a request goes to the address and port that the rules give for its server, if they
\* give an address. (After the caches were cleared one by one, it may find none.) Excepted are
\* delegations that were once not answered, and hosts with an SRV record that have an address
\* themselves: one entry serves for both.
DialsItsServer ==
    LET n == dialled.name
        rules == {by_rules(n, delegates) : delegates \in delegations(n)}
    IN (n # NoName /\ {n.host, dns.well_known[n].host} \cap two_addresses = {})
          => \/ <<dialled.addr, dialled.port>> \in rules
             \/ \E r \in rules : r[1] = NoAddr
             \/ cleared /\ dialled.addr = NoAddr

-----------------------------------------------------------------------------
(* An inductive invariant: what a request has yet to do, by the rules.     *)

\* The entry of a host is of its own address or of its SRV record's target.
OverrideOf(h) ==
    \/ overrides[h] = NoOverride
    \/ \E x \in {h} \cup {dns.srv[h].host : r \in {dns.srv[h]} \ {NoName}} :
          /\ lookup_ip(x) # NoAddr
          /\ overrides[h] \in [addr : {lookup_ip(x)}, overriding : {IF x = h THEN NoHost ELSE x}, valid : BOOLEAN]

\* The address that the rules give is that of the host, or there was an entry for it.
reaches(n, d) ==
    LET h == authority(n, d).host
    IN cleared \/ is_literal(h) \/ by_rules(n, d)[1] \in {NoAddr, lookup_ip(h)} \/ overrides[h] # NoOverride

DestinationOf(n) ==
    \/ destinations[n] = NoDestination
    \/ \E d \in delegations(n) :
          /\ destinations[n] \in [host : {authority(n, d).host}, port : {by_rules(n, d)[2]}, valid : BOOLEAN]
          /\ reaches(n, d)

may_delegate(m) == ~is_literal(m.host) /\ m.port = 0

Resolving(n, steps) ==
    \/ steps = <<[do |-> "resolve_actual_dest", name |-> n]>>
    \/ may_delegate(n) /\ steps = lookup(n.host, n.host) \o <<[do |-> "request_well_known", name |-> n]>>
    \/ may_delegate(n) /\ steps = <<[do |-> "request_well_known", name |-> n]>>
    \/ /\ may_delegate(n) /\ dns.well_known[n] # NoName /\ may_delegate(dns.well_known[n])
       /\ steps = <<[do |-> "actual_dest_3_3", name |-> n]>>
    \/ /\ may_delegate(n) /\ (dns.well_known[n] = NoName \/ n \in unanswered)
       /\ steps = <<[do |-> "actual_dest_4", name |-> n]>>

Resolved(n, d, steps) ==
    LET m == authority(n, d)
        h == m.host
        port == by_rules(n, d)[2]
        target == IF m.port # 0 \/ dns.srv[h] = NoName THEN h ELSE dns.srv[h].host
    IN \/ ~is_literal(h) /\ steps = lookup(h, target) \o resolved(n, h, port)
       \/ reaches(n, d) /\ steps = resolved(n, h, port)
       \/ /\ reaches(n, d)
          /\ \E dest \in [host : {h}, port : {port}, valid : BOOLEAN] :
                steps = <<[do |-> "perform", name |-> n, dest |-> dest]>>

Planned(steps) ==
    \/ steps \in {<<>>, clear_destinations, clear_overrides,
                  clear_destinations \o clear_overrides, clear_overrides \o clear_destinations}
    \/ \E n \in Name : Resolving(n, steps) \/ \E d \in delegations(n) : Resolved(n, d, steps)

ResolverInv ==
    /\ dns \in World /\ cleared \in BOOLEAN
    /\ DOMAIN destinations = Name /\ \A n \in Name : DestinationOf(n)
    /\ DOMAIN overrides = Host /\ \A h \in Host : OverrideOf(h)
    /\ DOMAIN work = Task /\ \A t \in Task : Planned(work[t])
    /\ DialsItsServer
=============================================================================
