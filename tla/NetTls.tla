------------------------------- MODULE NetTls -------------------------------
(***************************************************************************)
(* TLS on a slot of the socket layer, services/net_mbedtls.c and the parts *)
(* of core/net_socket.c under NET_MBEDTLS_HOST_SUPPORT: who allocates the  *)
(* context of a slot, who frees it, and what the slot's pointer is then.   *)
(* heap is the set of contexts allocated and not freed; a pointer to one   *)
(* that is not in the heap dangles, until an allocation returns it again.  *)
(*                                                                         *)
(* The operators take a slot s, a record with is_secure, tls_started and   *)
(* tlsData, and the heap; an outcome is the slot and the heap after the    *)
(* call and whether it succeeded.                                          *)
(***************************************************************************)
EXTENDS Naturals

CONSTANT MAX_CONTEXTS     \* bound on the contexts that fit in the heap

ASSUME NetTlsAssumption == MAX_CONTEXTS \in Nat \ {0}

Contexts == 1 .. MAX_CONTEXTS
NULL     == 0

Outcome(s, heap, ok) == [ slot |-> s, heap |-> heap, ok |-> ok ]

net_mbedtls_check_tlsdata_Unchecked(s, heap) ==
  IF s.tlsData # NULL THEN { Outcome(s, heap, TRUE) }
  ELSE { Outcome([ s EXCEPT !.tlsData = p ], heap \cup {p}, TRUE) : p \in Contexts \ heap }
         \cup { Outcome(s, heap \cup {NULL}, TRUE) }

\* net_mbedtls_check_tlsdata: a context, unless there is a pointer already.
net_mbedtls_check_tlsdata(s, heap) ==
  IF s.tlsData # NULL THEN { Outcome(s, heap, TRUE) }
  ELSE { Outcome([ s EXCEPT !.tlsData = p ], heap \cup {p}, TRUE) : p \in Contexts \ heap }
         \cup { Outcome(s, heap, FALSE) }

\* mbedtls_free_resource
mbedtls_free_resource(s, heap) ==
  Outcome([ s EXCEPT !.tlsData = NULL ], heap \ {s.tlsData}, FALSE)

\* net_mbedtls_start: whatever fails, the certificates, the configuration, the
\* name, the handshake, or the time it takes, the context is freed.
net_mbedtls_start(s, heap) ==
  { Outcome(s, heap, TRUE), mbedtls_free_resource(s, heap) }

\* The context whose session a call on the socket goes through, if it has one.
net_mbedtls_sock_recv(s) == IF s.is_secure THEN s.tlsData ELSE NULL
net_mbedtls_sock_send(s) == IF s.is_secure THEN s.tlsData ELSE NULL

\* What net_shutdown and net_closesocket do first.  A context that was never
\* started is forgotten, not freed.
tls_cleanup_KeepsContext(s, heap) ==
  Outcome([ s EXCEPT !.is_secure = FALSE, !.tls_started = IF s.is_secure THEN FALSE ELSE @ ],
          heap, TRUE)

tls_cleanup(s, heap) ==
  IF s.is_secure /\ s.tls_started
  THEN LET stopped == mbedtls_free_resource(s, heap)   \* net_mbedtls_stop
       IN  Outcome([ stopped.slot EXCEPT !.is_secure = FALSE, !.tls_started = FALSE ],
                   stopped.heap, TRUE)
  ELSE Outcome([ s EXCEPT !.is_secure = FALSE ], heap, TRUE)

tls_connect_failed_StaysSecure(s, heap) ==
  Outcome(s, IF s.is_secure THEN heap \ {s.tlsData} ELSE heap, FALSE)

\* net_connect, when the driver could not connect: the context is freed, the
\* pointer to it stays, and the slot is not secure any more.
tls_connect_failed(s, heap) ==
  Outcome([ s EXCEPT !.is_secure = FALSE ],
          IF s.is_secure THEN heap \ {s.tlsData} ELSE heap, FALSE)
=============================================================================
