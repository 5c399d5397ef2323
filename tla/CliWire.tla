------------------------------ MODULE CliWire ------------------------------
(***************************************************************************)
(* The Telnet transport: bytes that arrive in pieces of any length pass a  *)
(* state machine that takes commands, option requests and subnegotiations  *)
(* out of the text; option requests are answered as they are met.          *)
(*                                                                         *)
(* The other end is a Telnet client that follows RFC 1143.                 *)
(***************************************************************************)
EXTENDS Integers, Sequences, SequencesExt

CONSTANTS
  RxSize,      \* sizeof(rx_buf)
  MaxSbLen,    \* CLI_TELNET_MAX_SB_LEN
  Budgets      \* bound: how many things the user sends, options the client changes of its
               \* own accord, and bytes the session writes: records of these three numbers

ASSUME WireAssumption ==
  /\ RxSize \in Nat \ {0} /\ MaxSbLen \in Nat /\ MaxSbLen >= 3
  /\ Budgets \subseteq [sends : Nat, changes : Nat, writes : Nat]

VARIABLES
  telnet,     \* cli_telnet_ctx_struct_t
  toServer,   \* bytes in flight
  toClient,
  due,        \* what the user meant that the session has not read yet
  owed,       \* what the session wrote that the user has not seen yet
  peer        \* the client

wireVars == <<telnet, toServer, toClient, due, owed, peer>>

IAC == 255   DONT == 254   DO == 253   WONT == 252   WILL == 251   SB == 250
EL == 248    EC == 247     AYT == 246  SE == 240     NOP == 241

ECHO == 1   SGA == 3   NAWS == 31   LINEMODE == 34   BINARY == 0

Tracked == {ECHO, SGA, NAWS}

\* Requests for these are refused.
Refused == {LINEMODE, BINARY}

\* Options the client performs: WILL and WONT are its answers, DO and DONT the server's.
Remote == {NAWS, LINEMODE}

Options == Tracked \cup Refused

-----------------------------------------------------------------------------
(* cli_telnet_process_byte: the context, the text and what is sent back    *)

Result(ctx, text, sent) == [ctx |-> ctx, text |-> text, sent |-> sent]

Quiet(ctx) == Result(ctx, <<>>, <<>>)

(* Mutant: an answer to a request leaves the request pending.              *)
OptionUpdateKeepsPending(ctx, opt, enable) ==
  [ctx   |-> [ctx EXCEPT !.enabled[opt] = enable],
   reply |-> opt \notin ctx.pending /\ ctx.enabled[opt] # enable]

\* The answer to our own request is accepted and never acknowledged; a request for a
\* change is agreed to and confirmed.
OptionUpdate(ctx, opt, enable) ==
  [ctx   |-> [ctx EXCEPT !.enabled[opt] = enable, !.pending = @ \ {opt}],
   reply |-> opt \notin ctx.pending /\ ctx.enabled[opt] # enable]

TrackedHere(verb, opt) ==
  opt \in (IF verb \in {DO, DONT} THEN {ECHO, SGA} ELSE {NAWS})

Respond(ctx, verb, opt) ==
  LET enable   == verb \in {DO, WILL}
      tracked  == TrackedHere(verb, opt)
      update   == IF tracked THEN OptionUpdate(ctx, opt, enable)
                  ELSE [ctx |-> ctx, reply |-> enable]
      on       == tracked /\ enable
      answer   == IF verb \in {DO, DONT} THEN (IF on THEN WILL ELSE WONT)
                  ELSE (IF on THEN DO ELSE DONT)
  IN  Result(update.ctx, <<>>, IF update.reply THEN <<IAC, answer, opt>> ELSE <<>>)

EraseKey == 8
KillKey == 21
BellByte == 7

AfterIac(ctx, byte) ==
  LET normal == [ctx EXCEPT !.state = "normal"]
  IN  CASE byte = IAC -> Result(normal, <<255>>, <<>>)
        [] byte \in {DO, DONT, WILL, WONT} -> Quiet([ctx EXCEPT !.state = "verb", !.verb = byte])
        [] byte = SB -> Quiet([ctx EXCEPT !.state = "sb", !.sb_len = 0])
        [] byte = EC -> Result(normal, <<EraseKey>>, <<>>)
        [] byte = EL -> Result(normal, <<KillKey>>, <<>>)
        [] byte = AYT -> Result(normal, <<>>, <<BellByte>>)
        [] OTHER -> Quiet(normal)

\* A block without an end is given up after MaxSbLen bytes, or at the next command.
InSb(ctx, byte) ==
  IF ctx.state = "sb"
  THEN IF byte = IAC THEN Quiet([ctx EXCEPT !.state = "sb iac"])
       ELSE Quiet([ctx EXCEPT !.sb_len = @ + 1, !.state = IF ctx.sb_len >= MaxSbLen THEN "normal" ELSE @])
  ELSE CASE byte = SE -> Quiet([ctx EXCEPT !.state = "normal"])
         [] byte = IAC -> Quiet([ctx EXCEPT !.state = "sb"])
         [] OTHER -> AfterIac(ctx, byte)

ProcessByte(ctx, byte) ==
  CASE ctx.state = "normal" ->
         IF byte = IAC THEN Quiet([ctx EXCEPT !.state = "iac"])
         ELSE Result(ctx, IF byte = 0 THEN <<>> ELSE <<byte>>, <<>>)
    [] ctx.state = "iac"  -> AfterIac(ctx, byte)
    [] ctx.state = "verb" -> Respond([ctx EXCEPT !.state = "normal"], ctx.verb, byte)
    [] OTHER              -> InSb(ctx, byte)

\* The bytes of one read; bells is what the user gets to see of the answers.
Process(ctx, bytes) ==
  LET run[i \in 0 .. Len(bytes)] ==
        IF i = 0 THEN [ctx |-> ctx, text |-> <<>>, sent |-> <<>>, bells |-> <<>>]
        ELSE LET p == ProcessByte(run[i - 1].ctx, bytes[i])
             IN  [ctx   |-> p.ctx,
                  text  |-> run[i - 1].text \o p.text,
                  sent  |-> run[i - 1].sent \o p.sent,
                  bells |-> run[i - 1].bells \o (IF p.sent = <<BellByte>> THEN p.sent ELSE <<>>)]
  IN  run[Len(bytes)]

-----------------------------------------------------------------------------
(* The server's end                                                        *)

\* cli_telnet_init and cli_telnet_negotiate.
Negotiated ==
  [state |-> "normal", verb |-> 0, sb_len |-> 0, rx |-> <<>>,
   enabled |-> [o \in Tracked |-> FALSE], pending |-> Tracked]

Negotiation == <<IAC, WILL, ECHO, IAC, WILL, SGA, IAC, DONT, LINEMODE, IAC, DO, NAWS>>

(* Mutant: the state machine starts anew with every piece.                 *)
HandlerForgets(n) ==
  /\ telnet.rx = <<>>
  /\ LET p == Process([telnet EXCEPT !.state = "normal"], SubSeq(toServer, 1, n))
     IN  /\ telnet' = [p.ctx EXCEPT !.rx = p.text]
         /\ toClient' = toClient \o p.sent
         /\ owed' = owed \o p.bells
  /\ toServer' = SubSeq(toServer, n + 1, Len(toServer))
  /\ UNCHANGED <<due, peer>>

\* cli_telnet_handler: n bytes have arrived.
Handler(n) ==
  /\ telnet.rx = <<>>
  /\ LET p == Process(telnet, SubSeq(toServer, 1, n))
     IN  /\ telnet' = [p.ctx EXCEPT !.rx = p.text]
         /\ toClient' = toClient \o p.sent
         /\ owed' = owed \o p.bells
  /\ toServer' = SubSeq(toServer, n + 1, Len(toServer))
  /\ UNCHANGED <<due, peer>>

ReadByte ==
  /\ telnet.rx # <<>>
  /\ telnet' = [telnet EXCEPT !.rx = Tail(@)]
  /\ due' = Tail(due)
  /\ UNCHANGED <<toServer, toClient, owed, peer>>

Escape(byte) == IF byte = 255 THEN <<IAC, IAC>> ELSE <<byte>>

Text == 97

WriteByte(byte) ==
  /\ peer.left.writes > 0
  /\ toClient' = toClient \o Escape(byte)
  /\ owed' = Append(owed, byte)
  /\ peer' = [peer EXCEPT !.left.writes = @ - 1]
  /\ UNCHANGED <<telnet, toServer, due>>

-----------------------------------------------------------------------------
(* The client                                                              *)

\* What it may send, and what that means: 255 doubled, CR with NUL, editing commands, a
\* window size with and without 255 in it, and blocks without an end.
Phrases == {
  [bytes |-> <<Text>>,          means |-> <<Text>>],
  [bytes |-> <<IAC, IAC>>,      means |-> <<255>>],
  [bytes |-> <<13, 0>>,         means |-> <<13>>],
  [bytes |-> <<IAC, EC>>,       means |-> <<EraseKey>>],
  [bytes |-> <<IAC, EL>>,       means |-> <<KillKey>>],
  [bytes |-> <<IAC, AYT>>,      means |-> <<>>],
  [bytes |-> <<IAC, NOP>>,      means |-> <<>>],
  [bytes |-> <<IAC, SB, NAWS, 0, 80, IAC, SE>>,        means |-> <<>>],
  [bytes |-> <<IAC, SB, NAWS, IAC, IAC, SE, IAC, SE>>, means |-> <<>>],
  [bytes |-> <<IAC, SB, NAWS, 0, IAC, EC>>,            means |-> <<EraseKey>>],
  [bytes |-> <<IAC, SB>> \o [i \in 1 .. MaxSbLen + 1 |-> 0] \o <<Text>>, means |-> <<Text>>]}

Send(unit) ==
  /\ peer.left.sends > 0
  /\ toServer' = toServer \o unit.bytes
  /\ due' = due \o unit.means
  /\ peer' = [peer EXCEPT !.left.sends = @ - 1]
  /\ UNCHANGED <<telnet, toClient, owed>>

Verb(opt, on) == IF opt \in Remote THEN (IF on THEN WILL ELSE WONT) ELSE (IF on THEN DO ELSE DONT)

Says(opt, on) == toServer' = toServer \o <<IAC, Verb(opt, on), opt>>

ChangeOption(opt) ==
  /\ peer.left.changes > 0
  /\ peer.option[opt] \in {"no", "yes"}
  /\ Says(opt, peer.option[opt] = "no")
  /\ peer' = [peer EXCEPT !.left.changes = @ - 1,
                          !.option[opt] = IF @ = "no" THEN "want yes" ELSE "want no"]
  /\ UNCHANGED <<telnet, toClient, due, owed>>

Consume(n) == toClient' = SubSeq(toClient, n + 1, Len(toClient))

ShowByte ==
  /\ toClient # <<>>
  /\ \/ toClient[1] # IAC /\ Consume(1)
     \/ toClient[1] = IAC /\ toClient[2] = IAC /\ Consume(2)
  /\ owed' = Tail(owed)
  /\ UNCHANGED <<telnet, toServer, due, peer>>

Becomes(opt, state) == peer' = [peer EXCEPT !.option[opt] = state]

\* RFC 1143: a request is answered unless it changes nothing; an answer is not.
HearOption ==
  /\ Len(toClient) >= 3 /\ toClient[1] = IAC /\ toClient[2] # IAC
  /\ LET opt == toClient[3]
         on  == toClient[2] \in {WILL, DO}
         now == peer.option[opt]
     IN  \/ now = "no" /\ on /\ Becomes(opt, "yes") /\ Says(opt, TRUE)
         \/ now = "no" /\ on /\ Says(opt, FALSE) /\ UNCHANGED peer
         \/ now = "yes" /\ ~on /\ Becomes(opt, "no") /\ Says(opt, FALSE)
         \/ now = "want yes" /\ Becomes(opt, IF on THEN "yes" ELSE "no") /\ UNCHANGED toServer
         \/ now = "want no" /\ Becomes(opt, "no") /\ UNCHANGED toServer
         \/ ((now = "no" /\ ~on) \/ (now = "yes" /\ on)) /\ UNCHANGED <<peer, toServer>>
  /\ Consume(3)
  /\ UNCHANGED <<telnet, due, owed>>

-----------------------------------------------------------------------------
WireInit ==
  /\ telnet = Negotiated
  /\ toServer = <<>> /\ due = <<>> /\ owed = <<>>
  /\ toClient = Negotiation
  /\ \E b \in Budgets : peer = [option |-> [o \in Options |-> "no"], left |-> b]

WireNext ==
  \/ \E n \in 1 .. (IF Len(toServer) < RxSize THEN Len(toServer) ELSE RxSize) : Handler(n)
  \/ ReadByte
  \/ \E b \in {Text, 255} : WriteByte(b)
  \/ \E u \in Phrases : Send(u)
  \/ \E o \in Options : ChangeOption(o)
  \/ ShowByte \/ HearOption

WireSpec == WireInit /\ [][WireNext]_wireVars

-----------------------------------------------------------------------------
(* Correctness                                                             *)

\* Text survives both ways.  The session reads what the user meant, in order, however the
\* bytes were cut into pieces and whatever option requests, window sizes and broken blocks
\* lay between; the user sees what the session wrote, in order, between the answers.
TextIsDecoded ==
  /\ IsPrefix(telnet.rx, due)
  /\ toServer = <<>> => telnet.rx = due /\ telnet.state = "normal"
  /\ Len(toClient) >= 2 /\ (toClient[1] # IAC \/ toClient[2] = IAC) =>
       owed # <<>> /\ owed[1] = toClient[1]
  /\ toClient = <<>> => owed = <<>>

\* When nothing is in flight, both ends agree on every option, and no end still waits for
\* an answer: also after requests that crossed.
OptionsAgree ==
  toServer = <<>> /\ toClient = <<>> =>
    /\ telnet.pending = {}
    /\ \A o \in Options :
         peer.option[o] = IF o \in Tracked /\ telnet.enabled[o] THEN "yes" ELSE "no"

=============================================================================
