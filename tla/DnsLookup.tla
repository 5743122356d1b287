----------------------------- MODULE DnsLookup ------------------------------
(***************************************************************************)
(* Host name lookups of several threads (extensions/dnscache.c and         *)
(* dnsres.c) over one cache (LruSet).  A lookup that the cache cannot      *)
(* answer asks server after server for name after name on a UDP socket of  *)
(* its own and blocks for each reply; the decoded answer goes through the  *)
(* static array addr_list and the global _stx_dns_ttl, which all threads   *)
(* share.                                                                  *)
(*                                                                         *)
(* A name is 0, the host as it was given, or the number of the search      *)
(* domain appended to it.  A query is the host, the name and the server;   *)
(* its identifier is its position in asked.  A reply can come for any      *)
(* query that was sent, at any time, any number of times or never.  An     *)
(* answer is the record of the question it answers, the number of its      *)
(* addresses, its time to live and the time it was decoded.  addrList is   *)
(* the host whose addresses are in addr_list.                              *)
(***************************************************************************)
EXTENDS LruSet, SequencesExt

CONSTANTS Threads, None,
          Dots,          \* Dots[h]: the dots in host name h
          TrailingDot,   \* the hosts whose name ends with a dot
          Ndots, Defnames, Dnsrch, NDomains, NServers,    \* _res
          Ttls, Counts,  \* of the answers
          MaxTime

Hosts == DOMAIN Dots

ASSUME DnsAssumption ==
  /\ Dots \in [Hosts -> Nat] /\ TrailingDot \subseteq Hosts
  /\ Keys \subseteq Hosts
  /\ {Defnames, Dnsrch} \subseteq BOOLEAN
  /\ {Ndots, NDomains, MaxTime} \subseteq Nat
  /\ NServers \in Nat \ {0}
  /\ Ttls \subseteq Nat /\ Counts \subseteq Nat

VARIABLES
  cache, data,      \* _stx_dns_cache and the data of its entries
  addrList, ttl,    \* addr_list and _stx_dns_ttl
  clock,            \* st_time()
  call,             \* of each thread
  result            \* what the last step returned, if it returned from a call

vars == <<cache, data, addrList, ttl, clock, call, result>>

(* unbuilt: the tries for which res_mkquery failed. *)
Idle == [pc |-> "idle", host |-> None, try |-> 0, server |-> 0, asked |-> <<>>,
         unbuilt |-> {}]

Init ==
  /\ cache = NewCache
  /\ data = [e \in Entries |-> None]
  /\ addrList = None
  /\ ttl = 0
  /\ clock = 0
  /\ call = [t \in Threads |-> Idle]
  /\ result = None

-----------------------------------------------------------------------------
(* The names that are tried for a host, in order. *)
Searched(h) ==
  IF \/ Dots[h] = 0 /\ Defnames
     \/ Dots[h] > 0 /\ h \notin TrailingDot /\ Dnsrch
  THEN SubSeq([i \in 1..NDomains |-> i], 1, IF Dnsrch THEN NDomains ELSE 1)
  ELSE <<>>

Tries(h) ==
  IF Dots[h] >= Ndots THEN <<0>> \o Searched(h) ELSE Searched(h) \o <<0>>

(* res_mkquery: the next query of a call gets an identifier of its own. *)
Queried(c) ==
  [c EXCEPT !.asked = Append(@, <<c.host, Tries(c.host)[c.try], c.server>>)]

Return(t, r) ==
  /\ result' = r
  /\ call' = [call EXCEPT ![t] = Idle]

Fail(t, c, why) ==
  /\ Return(t, [host |-> c.host, kind |-> why, asked |-> c.asked,
                unbuilt |-> c.unbuilt])
  /\ UNCHANGED <<cache, data>>

(* Data of entries that are no longer allocated is gone. *)
Keep(d, c) == [e \in Entries |-> IF e \in c.table THEN d[e] ELSE None]

(* The address that stx_dns_getaddr takes next. *)
Wrap(i, n) == IF i >= n THEN 0 ELSE i

Outdated(e) == clock > data[e].expires

(* lookup_entry on a hit that has not expired: one address in turn for     *)
(* stx_dns_getaddr (rotate), all of them for stx_dns_getaddrlist.          *)
Hit(t, h, e, rotate) ==
  /\ ~Outdated(e)
  /\ cache' = Release(Lookup(cache, e), e)
  /\ data' = IF rotate
             THEN [data EXCEPT ![e].cur = Wrap(@ + 1, data[e].n)]
             ELSE data
  /\ Return(t, [host |-> h, kind |-> "hit", at |-> clock,
                answer |-> data[e]])
  /\ UNCHANGED <<addrList, ttl, clock>>

(* The lookup of a host that is not in the cache, or has just been purged. *)
(* Without a usable resolver, a host name or a socket it fails at once.    *)
Resolve(t, h) ==
  /\ \/ /\ call' = [call EXCEPT ![t] = [Idle EXCEPT !.pc = "send", !.host = h,
                                                     !.try = 1, !.server = 1]]
        /\ result' = None
     \/ Return(t, [host |-> h, kind |-> "refused"])
  /\ UNCHANGED <<addrList, ttl, clock>>

Purged(e) == Delete(Release(Lookup(cache, e), e), e)

Expired(t, h, e) ==
  /\ Outdated(e)
  /\ cache' = Purged(e)
  /\ data' = Keep(data, cache')
  /\ Resolve(t, h)

Miss(t, h) ==
  /\ Found(cache, h) = {}
  /\ UNCHANGED <<cache, data>>
  /\ Resolve(t, h)

_stx_dns_cache_getaddrlist(t, h) ==
  /\ call[t].pc = "idle"
  /\ \/ Miss(t, h)
     \/ \E e \in Found(cache, h) :
          \/ \E rotate \in BOOLEAN : Hit(t, h, e, rotate)
          \/ Expired(t, h, e)

-----------------------------------------------------------------------------
(* A mistake to compare with: the wait for a reply starts again. *)
OnwardAgain(c) == [c EXCEPT !.pc = "wait"]

(* The next server or, after the last one, the next name. *)
Onward(c) ==
  IF c.server < NServers
  THEN [c EXCEPT !.pc = "send", !.server = @ + 1]
  ELSE [c EXCEPT !.pc = "send", !.server = 1, !.try = @ + 1]

(* A mistake to compare with: the search stops at the last name. *)
LastName(c) == c.try = Len(Tries(c.host))

LastTry(c) == c.server = NServers /\ c.try = Len(Tries(c.host))

(* Nothing came of the last query of c: a refused send, a timeout, a short *)
(* packet, a reply that says no or that cannot be decoded.                 *)
GoOn(t, c) ==
  IF LastTry(c) THEN Fail(t, c, "failed")
  ELSE /\ call' = [call EXCEPT ![t] = Onward(c)]
       /\ result' = None
       /\ UNCHANGED <<cache, data>>

(* res_mkquery and st_sendto in query_domain. *)
Send(t) ==
  /\ call[t].pc = "send"
  /\ call' = [call EXCEPT ![t] = [Queried(@) EXCEPT !.pc = "wait"]]
  /\ result' = None
  /\ UNCHANGED <<cache, data, addrList, ttl, clock>>

(* res_mkquery fails: query_domain returns without asking the other servers*)
(* for this name.                                                          *)
NoQuery(t) ==
  /\ call[t].pc = "send"
  /\ GoOn(t, [call[t] EXCEPT !.server = NServers, !.unbuilt = @ \cup {call[t].try}])
  /\ UNCHANGED <<addrList, ttl, clock>>

(* A timeout, of the send or of the reply, or another failure. *)
NoReply(t) ==
  /\ \/ call[t].pc = "send" /\ GoOn(t, Queried(call[t]))
     \/ call[t].pc = "wait" /\ GoOn(t, call[t])
  /\ UNCHANGED <<addrList, ttl, clock>>

(* st_thread_interrupt ends the whole lookup. *)
Interrupted(t) ==
  /\ call[t].pc \in {"send", "wait"}
  /\ Fail(t, call[t], "interrupted")
  /\ UNCHANGED <<addrList, ttl, clock>>

(* A mistake to compare with: any packet that comes is taken for the reply.*)
MatchesAny(c, id) == TRUE

(* The packets of other queries are thrown away. *)
Matches(c, id) == id = Len(c.asked)

(* An answer as parse_answer leaves it; without an address record there is *)
(* no time to live.                                                        *)
Answer(c, id, n, life) ==
  [question |-> c.asked[id], n |-> n, life |-> IF n = 0 THEN 0 - 1 ELSE life,
   at |-> clock]

Decode(a) ==
  /\ addrList' = IF a.n = 0 THEN addrList ELSE a.question[1]
  /\ ttl' = a.life

(* An answer that breaks off has overwritten addr_list and _stx_dns_ttl. *)
Undecodable(t, a) == Decode(a) /\ GoOn(t, call[t])

(* A mistake to compare with: addr_list is copied as it was before.        *)
CopyLate == IF addrList = None THEN addrList' ELSE addrList

(* What is copied from addr_list. *)
Copy == addrList'

NewEntry(h) == CHOOSE e \in Entries \ cache.table : KeyOf[e] = h

(* insert_entry, for a new entry e of the cache. *)
InsertEntry(e, a) ==
  IF Inserts(cache, e)
  THEN /\ cache' = Release(Insert(cache, e), e)
       /\ data' = Keep([data EXCEPT ![e] =
                          [host |-> Copy, n |-> a.n, cur |-> 0,
                           expires |-> clock + ttl',
                           life |-> a.life, at |-> a.at]], cache')
  ELSE /\ cache' = Delete(Insert(cache, e), e)
       /\ data' = Keep(data, cache')

Answered(t, a) ==
  /\ Decode(a)
  /\ Return(t, [host |-> call[t].host, kind |-> "answer", answer |-> a,
                query |-> Last(call[t].asked)])
  /\ IF ttl' > 0
     THEN InsertEntry(NewEntry(call[t].host), a)
     ELSE UNCHANGED <<cache, data>>

Receive(t) ==
  /\ call[t].pc = "wait"
  /\ \E id \in 1..Len(call[t].asked), n \in Counts, life \in Ttls :
       /\ Matches(call[t], id)
       /\ LET a == Answer(call[t], id, n, life) IN
          \/ Undecodable(t, a)
          \/ Answered(t, a)
  /\ UNCHANGED clock

Tick ==
  /\ clock < MaxTime
  /\ clock' = clock + 1
  /\ result' = None
  /\ UNCHANGED <<cache, data, addrList, ttl, call>>

Next ==
  \/ Tick
  \/ \E t \in Threads :
       \/ \E h \in Hosts : _stx_dns_cache_getaddrlist(t, h)
       \/ Send(t)
       \/ NoQuery(t)
       \/ NoReply(t)
       \/ Interrupted(t)
       \/ Receive(t)

Spec == Init /\ [][Next]_vars

(* Every wait has a timeout. *)
FairSpec == Spec /\ \A t \in Threads : WF_vars(NoReply(t))

-----------------------------------------------------------------------------
(* A call is at one of the names and servers there are, and the cursor of  *)
(* a cached answer at one of its addresses: data->cur never leaves the     *)
(* array that it indexes, however hits and replacements alternate.         *)
TypeOK ==
  /\ clock \in 0..MaxTime
  /\ ttl \in Ttls \cup {-1, 0}
  /\ \A t \in Threads :
       call[t].pc # "idle" => /\ call[t].try \in 1..Len(Tries(call[t].host))
                              /\ call[t].server \in 1..NServers
  /\ \A e \in cache.table : data[e].cur \in 0..(data[e].n - 1)

(* A lookup is answered by the reply to the query that it sent last, for   *)
(* its own host: late replies to its earlier queries are told apart        *)
(* (query_domain).  What the cache returns is an answer about the host,    *)
(* not served after its time to live.                                      *)
AnswersQuestion ==
  result # None =>
    /\ result.kind = "answer" => result.answer.question = result.query
    /\ result.kind = "hit" =>
         /\ result.answer.host = result.host
         /\ result.at <= result.answer.at + result.answer.life

(* The cache holds, under the name of each host, an answer about that host *)
(* that expires when its own time to live is over, although every answer   *)
(* passes through addr_list and _stx_dns_ttl, which other threads and      *)
(* broken replies overwrite: there is no context switch from parse_answer  *)
(* to the end of insert_entry.  The lookups give back every reference they *)
(* take: the LRU list is the whole cache while threads wait.               *)
CacheTruthful ==
  /\ TypeOK
  /\ \A e \in cache.table :
       /\ data[e].host = KeyOf[e]
       /\ data[e].life > 0
       /\ data[e].expires = data[e].at + data[e].life
  /\ \A e \in Entries : cache.ref[e] = 0
  /\ cache.pending = {}
  /\ Elems(cache.lru) = cache.table

(* A lookup that got as far as its first query and was not interrupted     *)
(* fails only after every server was asked for every name, all servers for *)
(* a name before the next name.  Of a name that res_mkquery makes no query *)
(* of, and of no other, the remaining servers are skipped (dnsres.c:142).  *)
TriesEverything ==
  result # None /\ result.kind = "failed" =>
    LET tries == Tries(result.host) IN
    \E upto \in [DOMAIN tries -> 0..NServers] :
      /\ result.asked =
           FlattenSeq([i \in DOMAIN tries |->
             [s \in 1..upto[i] |-> <<result.host, tries[i], s>>]])
      /\ \A i \in DOMAIN tries : upto[i] < NServers <=> i \in result.unbuilt

(* Every lookup returns when every wait times out at last. *)
LookupReturns ==
  \A t \in Threads : []<>(call[t].pc = "idle")
=============================================================================
