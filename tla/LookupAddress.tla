---------------------------- MODULE LookupAddress -----------------------------
(***************************************************************************)
(* _GeoIP_lookupaddress: the number of a host, taken from its text or      *)
(* asked of gethostbyname_r with a buffer that is doubled as long as the   *)
(* answer does not fit; and _GeoIP_lookupaddress_v6, which asks            *)
(* getaddrinfo.  One action per system call.  The resolver is external: a  *)
(* host has an answer or none, and the answer needs a buffer of some size. *)
(***************************************************************************)
EXTENDS Integers

CONSTANTS
    Hosts,         \* [text, answer, answer6, needs]: the number the text stands
                   \* for, those the resolver knows, the buffer its answer needs
    NoAddress,     \* not a number: a name, or no answer
    INADDR_NONE,   \* the number inet_addr returns for a text that is no address
    FirstBuffer,   \* 16384
    TellsRange     \* whether a buffer that is too small is told by ERANGE in
                   \* *h_errnop too, or only by the result, as glibc does

ASSUME LookupConstants ==
    /\ NoAddress \notin Nat /\ INADDR_NONE \in Nat \ {0}
    /\ FirstBuffer \in Nat \ {0}
    /\ TellsRange \subseteq BOOLEAN
    /\ \A h \in Hosts : h.needs \in Nat /\ h.answer # 0 /\ h.answer6 # 0

\* What the resolver reports.
ERANGE == 34
NETDB_INTERNAL == -1
HOST_NOT_FOUND == 1

VARIABLES
    look,     \* the call: where it is, and its variables
    buffers   \* buffers allocated and not released

lvars == <<look, buffers>>

Asleep == [at |-> "idle", addr |-> 0, buflength |-> 0, result |-> 0,
           phe |-> NoAddress, herr |-> 0, value |-> 0]

LInit == look = Asleep /\ buffers = 0

InetAddr(h) == IF h.text = NoAddress THEN INADDR_NONE ELSE h.text

BeginLookup(h) ==
    /\ look.at = "idle"
    /\ buffers' = buffers + 1
    /\ look' = [Asleep EXCEPT
                  !.addr = InetAddr(h), !.buflength = FirstBuffer,
                  !.at = IF InetAddr(h) = INADDR_NONE THEN "query" ELSE "return"]

\* gethostbyname_r: a call that succeeds may leave *h_errnop as it was.
GetHostByName(h) ==
    /\ look.at = "query"
    /\ \/ /\ h.needs > look.buflength
          /\ \E tells \in TellsRange :
               look' = [look EXCEPT !.at = "test", !.result = ERANGE,
                          !.phe = NoAddress,
                          !.herr = IF tells THEN ERANGE ELSE NETDB_INTERNAL]
       \/ /\ h.needs <= look.buflength
          /\ \E herr \in IF h.answer = NoAddress THEN {HOST_NOT_FOUND}
                         ELSE {0, look.herr} :
               look' = [look EXCEPT !.at = "test", !.result = 0,
                          !.phe = h.answer, !.herr = herr]
    /\ UNCHANGED buffers

\* Mutant: the buffer stays.
GrowStays ==
    /\ look.at = "test"
    /\ look' = IF look.herr = ERANGE /\ look.result # 0
               THEN [look EXCEPT !.at = "query"]
               ELSE [look EXCEPT !.at = "return", !.addr = look.phe]
    /\ UNCHANGED buffers

\* realloc, or the end of the loop.
Grow ==
    /\ look.at = "test"
    /\ look' = IF look.herr = ERANGE /\ look.result # 0
               THEN [look EXCEPT !.at = "query", !.buflength = 2 * @]
               ELSE [look EXCEPT !.at = "return", !.addr = look.phe]
    /\ UNCHANGED buffers

\* Mutant: the early return keeps the buffer.
ReturnKeeps ==
    /\ look.at = "return"
    /\ buffers' = IF look.addr = NoAddress THEN buffers ELSE buffers - 1
    /\ look' = [Asleep EXCEPT !.at = "returned",
                  !.value = IF look.addr = NoAddress THEN 0 ELSE look.addr]

\* 0 when there is no host, and free(buf) either way.
Return ==
    /\ look.at = "return"
    /\ buffers' = buffers - 1
    /\ look' = [Asleep EXCEPT !.at = "returned",
                  !.value = IF look.addr = NoAddress THEN 0 ELSE look.addr]

\* _GeoIP_lookupaddress_v6; IPV6_NULL is 0.
LookupV6(h) ==
    /\ look.at = "idle"
    /\ look' = [Asleep EXCEPT !.at = "returned",
                  !.value = IF h.answer6 = NoAddress THEN 0 ELSE h.answer6]
    /\ UNCHANGED buffers

-----------------------------------------------------------------------------
(* Properties *)

\* A host whose text is an address is that address; any other is what the
\* resolver answers, for answers of any size where *h_errnop tells ERANGE, and
\* else as long as the first buffer holds them (the loop tests the wrong
\* variable, GeoIP.c:1826); and 0 means that there is none.
ResolvedTo(h) ==
    look.at = "returned" =>
        look.value \in
            IF InetAddr(h) # INADDR_NONE THEN {h.text}
            ELSE (IF h.answer = NoAddress THEN {0} ELSE {h.answer})
                 \cup (IF h.needs > FirstBuffer /\ FALSE \in TellsRange
                       THEN {0} ELSE {})

ResolvedToV6(h) ==
    look.at = "returned" =>
        look.value = IF h.answer6 = NoAddress THEN 0 ELSE h.answer6
=============================================================================
