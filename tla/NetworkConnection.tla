--------------------------- MODULE NetworkConnection ---------------------------
(***************************************************************************)
(* The DTLS connection of the LWM2M service (network.c below the mediator, *)
(* mbedtls_connector.c): creating it, closing it, reading and sending, with *)
(* every outcome of the SimpleLink and mbedTLS calls.  One task uses the    *)
(* connection; npc is the call it is in.  Lwm2mClient is that task.         *)
(*                                                                          *)
(* uiso_create_network_connection is only called without a local port and   *)
(* for DTLS over IPv4 (uiso_lightclient.c, connection.c): sl_Bind and the   *)
(* functions for plain UDP and TCP are not reached.                         *)
(***************************************************************************)
EXTENDS Integers

CONSTANTS
  Sds,         \* the descriptors the network processor can give
  IdleLimit,   \* 120 s: a longer pause before a send needs a new handshake
  CidEnabled   \* a DTLS connection identifier was negotiated; never in this
               \* build (mbedtls_ssl_set_cid with MBEDTLS_SSL_CID_DISABLED)

ASSUME ConnectionAssumption ==
  /\ Sds \subseteq Nat
  /\ IdleLimit \in Nat
  /\ CidEnabled = FALSE

VARIABLES
  sd,        \* ctx->sd
  protocol,  \* ctx->protocol: "none" until the first connection
  session,   \* ssl_context: "freed", "new" (handshake not over) or "up"
  bio,       \* whether mbedtls_ssl_set_bio was called on ssl_context
  age,       \* seconds since ctx->last_send_time, up to IdleLimit + 1
  open,      \* descriptors open in the network processor
  npc,       \* the call in progress, "idle" if none
  ret,       \* what the last function returned: "ok" or "error"
  message,   \* the message being sent: "fits" a record or is "long"
  blind      \* history: handshakes without a transport since the reset, <= 2

\* UISO_NETWORK_INVALID_SOCKET, and the negative error codes of socket
NoSd == -1

ctxVars == <<sd, protocol, age, open>>
tlsVars == <<session, bio, blind>>
networkVars == <<ctxVars, tlsVars, npc, ret, message>>

Results == {"ok", "error"}
Messages == {"fits", "long"}
Positions == {"idle", "dns", "socket", "handshake", "read", "read_reset",
              "read_handshake", "send", "renegotiate", "reneg_reset",
              "reneg_handshake", "write", "write_reset", "write_handshake"}

NetworkTypeOK ==
  /\ sd \in Sds \cup {NoSd}
  /\ protocol \in {"none", "dtls"}
  /\ session \in {"freed", "new", "up"}
  /\ bio \in BOOLEAN
  /\ age \in 0..(IdleLimit + 1)
  /\ open \subseteq Sds
  /\ npc \in Positions
  /\ ret \in Results
  /\ message \in Messages
  /\ blind \in 0..2

\* _initialize_network_ctx, and the network processor just started
NetworkInit ==
  /\ sd = NoSd /\ protocol = "none" /\ open = {}
  /\ session = "freed" /\ bio = FALSE
  /\ age = 0
  /\ npc = "idle" /\ ret = "ok" /\ message = "fits"
  /\ blind = 0

Goto(from, to) == npc = from /\ npc' = to

Return(result) == npc' = "idle" /\ ret' = result

\* Mutated form: last_send_time is a second ahead.
JustSentAhead == -1

\* ctx->last_send_time = sl_sleeptimer_get_time()
JustSent == 0

-----------------------------------------------------------------------------
(* mbedTLS.  A session is lost when it is reset; a reset can fail for lack  *)
(* of memory.  close_notify sends only in an established session, so only   *)
(* there it can fail.                                                       *)

Handshake(ok) == ok => bio

CloseNotify(ok) == ~ok => session = "up"

\* mbedtls_ssl_get_peer_cid fails while the handshake is not over.
PeerCidFails == session # "up"

-----------------------------------------------------------------------------
(* mbedtls_connector_initialize and uiso_create_network_connection.        *)

\* _set_mbedtls_bio: the transport is chosen by ctx->protocol, which is the
\* protocol of the connection before, as _network_connect sets it later.
SetBio == protocol = "dtls"

\* The security object is read, ssl_context set up and registered, the
\* transport set.
CreateConnection ==
  /\ npc = "idle" /\ npc' = "dns"
  /\ session' = "new"
  /\ bio' = SetBio
  /\ UNCHANGED <<ctxVars, ret, message, blind>>

\* The setup fails, or the allocation in connection_create.
CreateFails ==
  /\ npc = "idle" /\ Return("error")
  /\ session' = "new" /\ bio' = FALSE
  /\ UNCHANGED <<ctxVars, message, blind>>

\* sl_NetAppDnsGetHostByName
Resolve ==
  /\ Goto("dns", "socket")
  /\ UNCHANGED <<ctxVars, tlsVars, ret, message>>
ResolveFails ==
  /\ npc = "dns" /\ Return("error")
  /\ UNCHANGED <<ctxVars, tlsVars, message>>

\* Mutated form: the protocol is not stored.
StoredProtocolNone == protocol

StoredProtocol == "dtls"

\* socket, sl_SetSockOpt and connect.  connect reports errors by negative
\* values; the code looks for positive ones and goes on.
OpenSocket(s) ==
  /\ Goto("socket", "handshake")
  /\ s \in Sds \ open
  /\ sd' = s /\ open' = open \cup {s}
  /\ protocol' = StoredProtocol
  /\ UNCHANGED <<age, tlsVars, ret, message>>
OpenSocketFails ==
  /\ npc = "socket" /\ Return("error")
  /\ sd' = NoSd
  /\ protocol' = StoredProtocol
  /\ UNCHANGED <<age, open, tlsVars, message>>

\* The first handshake; a failure leaves the descriptor open.
FirstHandshake(ok) ==
  /\ npc = "handshake"
  /\ Handshake(ok)
  /\ session' = IF ok THEN "up" ELSE "new"
  /\ age' = IF ok THEN JustSent ELSE age
  /\ blind' = IF bio \/ blind = 2 THEN blind ELSE blind + 1
  /\ Return(IF ok THEN "ok" ELSE "error")
  /\ UNCHANGED <<sd, protocol, open, bio, message>>

\* uiso_close_network_connection: close_notify, whatever comes of it, then
\* _network_close, which does nothing to descriptor 0.
CloseConnection ==
  IF sd > 0
  THEN sd' = NoSd /\ open' = open \ {sd}
  ELSE UNCHANGED <<sd, open>>

-----------------------------------------------------------------------------
(* _read_dtls.                                                             *)

Read ==
  /\ npc = "idle" /\ npc' = "read"
  /\ UNCHANGED <<ctxVars, tlsVars, ret, message>>

\* mbedtls_ssl_read returns a packet.  It ends a handshake that is not over.
ReadData ==
  /\ npc = "read" /\ Return("ok")
  /\ bio
  /\ session' = "up"
  /\ UNCHANGED <<ctxVars, bio, blind, message>>

\* It returns an error, MBEDTLS_ERR_SSL_WANT_READ for want of data included.
ReadFails ==
  /\ Goto("read", "read_reset")
  /\ UNCHANGED <<ctxVars, tlsVars, ret, message>>

\* The session is closed and reset, then made anew; the result is the error
\* of the read in any case.
ReadReset(ok) ==
  /\ npc = "read_reset"
  /\ session' = "new"
  /\ IF ok THEN npc' = "read_handshake" /\ UNCHANGED ret ELSE Return("error")
  /\ UNCHANGED <<ctxVars, bio, blind, message>>
ReadHandshake(ok) ==
  /\ npc = "read_handshake"
  /\ Handshake(ok)
  /\ session' = IF ok THEN "up" ELSE "new"
  /\ Return("error")
  /\ UNCHANGED <<ctxVars, bio, blind, message>>

-----------------------------------------------------------------------------
(* _send_dtls.                                                             *)

\* Mutated form: a send that fails counts as a send as well.
SendReturnsAlways(result) == Return(result) /\ age' = JustSent

\* The end of _send_dtls: last_send_time is kept by a send that fails.
SendReturns(result) ==
  /\ Return(result)
  /\ age' = IF result = "ok" THEN JustSent ELSE age

\* The send goes on with its next call.
SendOn(to) == npc' = to /\ UNCHANGED <<ret, age>>

Send(m) ==
  /\ npc = "idle" /\ npc' = "send"
  /\ message' = m
  /\ UNCHANGED <<ctxVars, tlsVars, ret>>

\* Mutated form: the result of mbedtls_ssl_get_peer_cid is not looked at.
AfterCheckAnyway ==
  IF ~CidEnabled /\ age > IdleLimit THEN "renegotiate" ELSE "write"

\* Where the send goes on: to the renegotiation after a long pause, to the
\* write in a session, and nowhere without one.
AfterCheck ==
  IF ~CidEnabled /\ age > IdleLimit THEN "renegotiate"
  ELSE IF CidEnabled \/ ~PeerCidFails THEN "write" ELSE "idle"

SendCheck ==
  /\ npc = "send"
  /\ IF AfterCheck = "idle" THEN SendReturns("error") ELSE SendOn(AfterCheck)
  /\ UNCHANGED <<sd, protocol, open, tlsVars, message>>

\* mbedtls_ssl_renegotiate, only possible in a session; when it fails the
\* session may be left in the middle of the handshake.
Renegotiate ==
  /\ Goto("renegotiate", "write")
  /\ session = "up"
  /\ UNCHANGED <<ctxVars, tlsVars, ret, message>>
RenegotiateFails ==
  /\ Goto("renegotiate", "reneg_reset")
  /\ session' \in {session, "new"}
  /\ UNCHANGED <<ctxVars, bio, blind, ret, message>>

\* mbedtls_ssl_close_notify, once, and mbedtls_ssl_session_reset; if one of
\* them fails there is no handshake.
RenegReset(closed, reset) ==
  /\ npc = "reneg_reset"
  /\ CloseNotify(closed)
  /\ session' = "new"
  /\ IF closed /\ reset THEN SendOn("reneg_handshake")
                        ELSE SendReturns("error")
  /\ UNCHANGED <<sd, protocol, open, bio, blind, message>>
RenegHandshake(ok) ==
  /\ npc = "reneg_handshake"
  /\ Handshake(ok)
  /\ session' = IF ok THEN "up" ELSE "new"
  /\ IF ok THEN SendOn("write") ELSE SendReturns("error")
  /\ UNCHANGED <<sd, protocol, open, bio, blind, message>>

\* mbedtls_ssl_write: the whole message in one record.
Write ==
  /\ npc = "write" /\ SendReturns("ok")
  /\ message = "fits"
  /\ UNCHANGED <<sd, protocol, open, tlsVars, message>>

\* It must be retried: WANT_READ, WANT_WRITE, ..._IN_PROGRESS.
WriteAgain ==
  /\ npc = "write"
  /\ UNCHANGED networkVars

\* It fails, as it always does for a message that is longer than a record.
WriteFails ==
  /\ Goto("write", "write_reset")
  /\ UNCHANGED <<ctxVars, tlsVars, ret, message>>
WriteReset(ok) ==
  /\ npc = "write_reset"
  /\ session' = "new"
  /\ IF ok THEN SendOn("write_handshake") ELSE SendReturns("error")
  /\ UNCHANGED <<sd, protocol, open, bio, blind, message>>

\* Mutated form: a failed handshake is tried again.
WriteHandshakeFailsRetry == SendOn("write_reset")

\* Without a session the loop is left with the error of the handshake.
WriteHandshakeFails == SendReturns("error")

\* After the handshake the write is repeated.
WriteHandshake(ok) ==
  /\ npc = "write_handshake"
  /\ Handshake(ok)
  /\ session' = IF ok THEN "up" ELSE "new"
  /\ IF ok THEN SendOn("write") ELSE WriteHandshakeFails
  /\ UNCHANGED <<sd, protocol, open, bio, blind, message>>

-----------------------------------------------------------------------------
(* The clock.                                                              *)

\* A second passes.
Tick ==
  /\ age' = IF age > IdleLimit THEN age ELSE age + 1
  /\ UNCHANGED <<sd, protocol, open, tlsVars, npc, ret, message>>

\* uiso_sntp_request sets the clock.  The difference to last_send_time is
\* unsigned: set back behind it the clock seems far ahead.
SetClock(a) ==
  /\ age' = a
  /\ UNCHANGED <<sd, protocol, open, tlsVars, npc, ret, message>>

\* The steps inside a function of the connection.
NetworkStep ==
  \/ Resolve \/ ResolveFails
  \/ \E s \in Sds : OpenSocket(s)
  \/ OpenSocketFails
  \/ \E ok \in BOOLEAN : FirstHandshake(ok)
  \/ ReadData \/ ReadFails
  \/ \E ok \in BOOLEAN : ReadReset(ok) \/ ReadHandshake(ok)
  \/ SendCheck
  \/ Renegotiate \/ RenegotiateFails
  \/ \E closed, reset \in BOOLEAN : RenegReset(closed, reset)
  \/ \E ok \in BOOLEAN : RenegHandshake(ok)
  \/ Write \/ WriteAgain \/ WriteFails
  \/ \E ok \in BOOLEAN : WriteReset(ok) \/ WriteHandshake(ok)

=============================================================================
