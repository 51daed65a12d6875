----------------------------- MODULE UartLink -----------------------------
(***************************************************************************)
(* A file transfer or a program load over the UART: one of the programs    *)
(* uartupld and uartrun (user/uartupld/src/main.c, user/uartrun/src/main.c)*)
(* at one end, the command being executed by uart_interface.py at the      *)
(* other.  The device says a magic word whenever it is about to read; the  *)
(* client is meant to send only what such a word asked for, because what   *)
(* arrives while the device does something else has to fit the receiver.   *)
(*                                                                         *)
(* A token <<kind, value>> stands for a run of bytes: a packet's type, its *)
(* arguments, part of a path, its terminator, or one unit of data.         *)
(***************************************************************************)
EXTENDS Integers, Sequences, FiniteSetsExt

CONSTANTS Sizes,        \* the sizes of the files sent, in units of data
          Chunk,        \* the units written at once: 32 KiB in both programs
          ClusterSize,  \* the units a cluster of the card holds
          ReadMax,      \* the units the client reads at once: 1 KiB
          Depth,        \* the tokens the receiver of the UART can hold
          OldSize,      \* the size of the file that an upload overwrites
          Apps,         \* the programs that may be running on the device
          MaxCommands   \* bound: the commands given

ASSUME LinkAssumption ==
    /\ Sizes \subseteq Nat /\ Apps \subseteq {"uartupld", "uartrun"}
    /\ {Chunk, ClusterSize, ReadMax, Depth} \subseteq Nat \ {0} /\ ReadMax <= Chunk
    /\ Chunk % ClusterSize = 0
    /\ {OldSize, MaxCommands} \subseteq Nat

VARIABLES dev,      \* the device: app, at, packet, size, paths, left, buffer, written,
                    \* cluster (of the file, where its descriptor is), old (its size before)
          card,     \* the uploaded file, a sequence of units; 0 is a unit of zeros,
                    \* -1 one that was not sent
          client,   \* the client: command, at (its place in the script), sent, due
          ready,    \* magic_word_uart_ready_recived
          offset,   \* magic_word_uart_ready_recive_offset
          up,       \* tokens on their way to the device
          rx,       \* tokens in the device's receiver
          down,     \* characters on their way to the client
          given,    \* the number of commands given
          early,    \* TRUE once more was sent than a ready word had asked for
          faults    \* what has gone wrong: errors, losses, abandoned commands

linkVars == <<dev, card, client, ready, offset, up, rx, down, given, early, faults>>

(* Characters: "U" and "R" spell the word, "n" is a newline, "x" any other. *)
Magic == <<"U", "R", "n">>
Greeting == <<"U", "x", "n">>
Done == <<"x", "n">>
Message == <<"x", "U", "n">>

Idle == [name |-> "none", app |-> "none", size |-> 0, avail |-> 0]

(* avail: what can be read of the file, which may have become shorter.     *)
(* A program whose page is larger than its image has a page to be zeroed.  *)
Commands ==
    [name : {"file_upload"}, app : {"uartupld"}, size : Sizes, avail : Sizes]
    \cup [name : {"file_move", "singal_path_packet"}, app : {"uartupld"},
          size : {0}, avail : {0}]
    \cup [name : {"run_user_app", "run_with_memset"}, app : {"uartrun"},
          size : Sizes \ {0}, avail : Sizes \ {0}]
-----------------------------------------------------------------------------
(* The device. *)

Known(app) == IF app = "uartupld" THEN {"create", "rename", "delete", "list"}
              ELSE {"execute", "section", "memset", "memcpy"}
HasArguments == {"create", "execute", "section", "memset", "memcpy"}

Paths(packet) == IF packet = "rename" THEN 2 ELSE IF packet \in HasArguments \ {"create"}
                 THEN 0 ELSE 1

Expected == [type |-> {"type"}, args |-> {"args"}, path |-> {"char", "nul"},
             data |-> {"data"}]
Reading == dev.at \in DOMAIN Expected

Say(text) == down' = down \o text

(* A packet's handler returns and the next packet is waited for. *)
Finish(text) ==
    /\ dev' = [dev EXCEPT !.at = "ready"]
    /\ Say(text \o Done)

After(packet, paths) ==
    IF paths > 0 THEN "askPath"
    ELSE CASE packet = "create" -> "open"
           [] packet = "memcpy" -> "askData"
           [] OTHER -> "operate"

(* send_magic_word, and on to the reading loop behind it. *)
SendMagicWord ==
    /\ dev.at \in {"ready", "askPath", "askData"}
    /\ dev' = [dev EXCEPT !.at = CASE @ = "ready" -> "type"
                                   [] @ = "askPath" -> "path"
                                   [] OTHER -> "data",
                          !.buffer = <<>>]
    /\ Say(Magic)
    /\ UNCHANGED <<card, client, ready, offset, up, rx, given, early, faults>>

Accepted(kind) ==
    /\ rx # <<>> /\ Reading /\ Head(rx)[1] = kind /\ kind \in Expected[dev.at]
    /\ rx' = Tail(rx)
    /\ UNCHANGED <<card, client, ready, offset, up, down, given, early, faults>>

ParsePacket ==
    /\ Accepted("type") /\ Head(rx)[2] \in Known(dev.app)
    /\ LET packet == Head(rx)[2]
       IN  dev' = [dev EXCEPT !.packet = packet, !.paths = Paths(packet),
                              !.at = IF packet \in HasArguments THEN "args"
                                     ELSE After(packet, Paths(packet))]

ReadArguments ==
    /\ Accepted("args")
    /\ dev' = [dev EXCEPT !.size = Head(rx)[2], !.left = Head(rx)[2], !.written = 0,
                          !.at = After(dev.packet, dev.paths)]

GetPath ==
    \/ Accepted("char") /\ UNCHANGED dev
    \/ /\ Accepted("nul")
       /\ dev' = [dev EXCEPT !.paths = @ - 1, !.at = After(dev.packet, dev.paths - 1)]

(* Up to a chunk is read before it is written; memcpy stores every byte.   *)
ReceiveData ==
    /\ Accepted("data")
    /\ dev' = [dev EXCEPT !.buffer = Append(@, Head(rx)[2]), !.left = @ - 1,
                          !.at = IF dev.left > 1 /\ \/ dev.packet = "memcpy"
                                                    \/ Len(dev.buffer) + 1 < Chunk
                                 THEN "data"
                                 ELSE IF dev.packet = "memcpy" THEN "operate" ELSE "write"]

(* Something else than the device is waiting for: from here on it depends  *)
(* on the bytes what it does with them, and nothing is said about it.      *)
Misread ==
    /\ Reading /\ rx # <<>>
    /\ Head(rx)[1] \in Expected[dev.at] =>
           dev.at = "type" /\ Head(rx)[2] \notin Known(dev.app)
    /\ dev' = [dev EXCEPT !.at = "misled"]
    /\ rx' = Tail(rx)
    /\ UNCHANGED <<card, client, ready, offset, up, down, given, early, faults>>

OpenFile ==
    /\ dev.at = "open"
    /\ \/ /\ dev' = [dev EXCEPT !.at = IF dev.left > 0 THEN "askData" ELSE "truncate",
                                !.cluster = 0, !.old = Len(card)]
          /\ UNCHANGED <<down, faults>>
       \/ Finish(Message) /\ faults' = faults \cup {"open"}
    /\ UNCHANGED <<card, client, ready, offset, up, rx, given, early>>

Larger(m, n) == IF m < n THEN n ELSE m

(* The clusters of a file; one that is empty, or cut to nothing, has one.  *)
ClustersFor(size) == IF size = 0 THEN 1 ELSE (size + ClusterSize - 1) \div ClusterSize

(* A write of n units finds the end of a file that needs more clusters by  *)
(* going on from where it is: there is none behind a full last cluster.    *)
CannotExtend(n) ==
    /\ ClustersFor(dev.written + n) > ClustersFor(Len(card))
    /\ dev.cluster + (Len(card) \div ClusterSize) - (dev.written \div ClusterSize)
           >= ClustersFor(Len(card))

(* A write that ends with a cluster stays on it, and only one that makes   *)
(* the file longer from its end moves on first.                            *)
WriteCluster ==
    IF dev.written = Len(card) /\ dev.written # 0 THEN dev.cluster + 1 ELSE dev.cluster

Overwritten(file, length, from, data) ==
    [i \in 1 .. Larger(Len(file), length) |->
        IF i \in from + 1 .. from + Len(data) THEN data[i - from]
        ELSE IF i <= Len(file) THEN file[i] ELSE -1]

(* "overlong": one more chunk goes to a file that had been longer than a   *)
(* chunk.  It lands a cluster too early, and clusters that are added then  *)
(* may replace others: from here on only the size of the file is right.    *)
WriteFile ==
    /\ dev.at = "write"
    /\ LET n == Len(dev.buffer)
           from == ClusterSize * WriteCluster + (dev.written % ClusterSize)
       IN  \/ /\ ~CannotExtend(n)
              /\ card' = Overwritten(card, dev.written + n, from, dev.buffer)
              /\ dev' = [dev EXCEPT !.written = @ + n,
                                    !.cluster = (from + n - 1) \div ClusterSize,
                                    !.at = IF dev.left > 0 THEN "askData" ELSE "truncate"]
              /\ faults' = IF dev.written > 0 /\ dev.old > Chunk
                           THEN faults \cup {"overlong"} ELSE faults
              /\ UNCHANGED down
           \/ Finish(Message) /\ faults' = faults \cup {"write"} /\ UNCHANGED card
    /\ UNCHANGED <<client, ready, offset, up, rx, given, early>>

(* Mutant: a longer file that is overwritten keeps its tail. *)
MutTruncateFile ==
    /\ dev.at = "truncate"
    /\ Finish(<<>>)
    /\ UNCHANGED <<card, client, ready, offset, up, rx, given, early, faults>>

(* Clusters can be taken away only behind the one the descriptor is on;    *)
(* the program does not look whether the call failed.  A byte is kept of a *)
(* file that is cut to nothing, here a unit.                               *)
TruncateFile ==
    /\ dev.at = "truncate"
    /\ LET kept == Larger(1, dev.size)
           fails == /\ ClustersFor(Len(card)) > ClustersFor(kept)
                    /\ dev.cluster # ClustersFor(kept) - 1
       IN  card' = IF Len(card) <= kept \/ fails THEN card ELSE SubSeq(card, 1, kept)
    /\ Finish(<<>>)
    /\ UNCHANGED <<client, ready, offset, up, rx, given, early, faults>>

(* The packets that end with one call.  Those of uartupld succeed, or say  *)
(* that they failed (a listing says something in any case).                *)
ChangeDirectory ==
    /\ dev.at = "operate" /\ dev.packet \in {"rename", "delete", "list"}
    /\ \E text \in {<<>>, Message} : Finish(text)
    /\ UNCHANGED <<card, client, ready, offset, up, rx, given, early, faults>>

(* A copy or a fill reports itself.  A section that cannot be had ends     *)
(* uartrun, and the program that is executed replaces it.                  *)
ChangeMemory ==
    /\ dev.at = "operate"
    /\ \/ dev.packet \in {"memcpy", "memset"} /\ Finish(Message) /\ UNCHANGED faults
       \/ dev.packet = "section" /\ Finish(<<>>) /\ UNCHANGED faults
       \/ /\ dev.packet = "section"
          /\ dev' = [dev EXCEPT !.at = "left"] /\ Say(Message)
          /\ faults' = faults \cup {"section"}
       \/ /\ dev.packet = "execute"
          /\ dev' = [dev EXCEPT !.at = "left"] /\ UNCHANGED <<down, faults>>
    /\ UNCHANGED <<card, client, ready, offset, up, rx, given, early>>
-----------------------------------------------------------------------------
(* The client. *)

Header(packet, size) == <<<<"type", packet>>, <<"args", size>>>>
Packet(packet) == <<<<"type", packet>>>>
Path == <<<<"char", 0>>, <<"nul", 0>>>>

(* What a command does, in order: <<"wait">> is wait_for_magic_word,       *)
(* <<"data", chunk>> is upload_file, <<"raise">> an exception.             *)
Wait == <<"wait">>
Send(tokens) == <<"send", tokens>>

(* command_file_upload: an empty file divides by zero in upload_file.      *)
UploadScript(c) ==
    <<Wait, Send(Header("create", c.size)), Wait, Send(Path), Wait,
      IF c.size = 0 THEN <<"raise">> ELSE <<"data", Chunk>>>>

MoveScript == <<Send(Packet("rename")), Wait, Send(Path), Wait, Send(Path)>>

PathScript == <<Send(Packet("delete")), Wait, Send(Path)>>

(* command_run_user_app: a page larger than the image is to be zeroed with *)
(* a memset packet, whose value has no to_bytes.                           *)
RunScript(c) ==
    LET Section == Send(Header("section", 0))
    IN  IF c.name = "run_with_memset" THEN <<Wait, Section, Wait, <<"raise">>>>
        ELSE <<Wait, Section, Wait, Send(Header("memcpy", c.size)), Wait, <<"data", 0>>,
               Wait, Section, Wait, Send(Header("execute", 0))>>

Script(c) ==
    CASE c.name = "file_upload" -> UploadScript(c)
      [] c.name = "file_move" -> MoveScript
      [] c.name = "singal_path_packet" -> PathScript
      [] OTHER -> RunScript(c)

Step == IF client.command # Idle /\ client.at <= Len(Script(client.command))
        THEN Script(client.command)[client.at] ELSE <<"none">>

Waiting == Step[1] = "wait" \/ (Step[1] = "data" /\ client.due)

StartCommand(c) ==
    /\ client.command = Idle /\ given < MaxCommands
    /\ c.app = dev.app /\ c.avail <= c.size
    /\ client' = [command |-> c, at |-> 1, sent |-> 0, due |-> FALSE]
    /\ given' = given + 1
    /\ early' = (early \/ Script(c)[1][1] # "wait")
    /\ UNCHANGED <<dev, card, ready, offset, up, rx, down, faults>>

(* Mutant: a ready word is not used up by the wait it ends. *)
MutWaitForMagicWord ==
    /\ Waiting /\ ready
    /\ client' = IF Step[1] = "wait" THEN [client EXCEPT !.at = @ + 1]
                 ELSE [client EXCEPT !.due = FALSE]
    /\ UNCHANGED <<dev, card, ready, offset, up, rx, down, given, early, faults>>

WaitForMagicWord ==
    /\ Waiting /\ ready
    /\ ready' = FALSE
    /\ client' = IF Step[1] = "wait" THEN [client EXCEPT !.at = @ + 1]
                 ELSE [client EXCEPT !.due = FALSE]
    /\ UNCHANGED <<dev, card, offset, up, rx, down, given, early, faults>>

SendMessage ==
    /\ Step[1] = "send"
    /\ up' = up \o Step[2]
    /\ client' = [client EXCEPT !.at = @ + 1]
    /\ UNCHANGED <<dev, card, ready, offset, rx, down, given, early, faults>>

(* Mutant: the boundary of a chunk is seen one unit early. *)
MutCrosses(n, chunk) == chunk # 0 /\ (client.sent % chunk) + n >= chunk - 1

(* handle_chunk_boundarys: whether n units reach the end of the chunk, so  *)
(* that a ready word is due before more is sent, and how many of them end  *)
(* with a chunk: with the last of several, when the file has become so     *)
(* much shorter that the zeros fill more than one.                         *)
Crosses(n, chunk) == chunk # 0 /\ (client.sent % chunk) + n >= chunk
Cut(n, chunk) ==
    IF Crosses(n, chunk) THEN n - (((client.sent % chunk) + n) % chunk) ELSE n

(* One turn of a loop of upload_file: the file first, zeros when it ends.  *)
UploadFile ==
    /\ Step[1] = "data" /\ ~client.due
    /\ LET c == client.command
           left == c.size - client.sent
           n == IF client.sent < c.avail THEN Min({left, ReadMax, c.avail - client.sent})
                ELSE left
           kept == Cut(n, Step[2])
       IN  /\ up' = up \o [i \in 1 .. kept |->
                 <<"data", IF client.sent < c.avail THEN client.sent + i ELSE 0>>]
           /\ client' = [client EXCEPT !.sent = @ + kept,
                            !.due = Crosses(n, Step[2]) /\ kept < left,
                            !.at = IF kept = left THEN @ + 1 ELSE @]
           /\ early' = (early \/ (Step[2] # 0 /\ (client.sent % Step[2]) + kept > Step[2]))
    /\ UNCHANGED <<dev, card, ready, offset, rx, down, given, faults>>

EndCommand ==
    /\ client.command # Idle /\ Step[1] = "none"
    /\ client' = [client EXCEPT !.command = Idle]
    /\ UNCHANGED <<dev, card, ready, offset, up, rx, down, given, early, faults>>

(* An exception ends a command without a further word to the device. *)
CommandRaises ==
    /\ Step[1] = "raise"
    /\ client' = [client EXCEPT !.command = Idle]
    /\ faults' = faults \cup {"raised"}
    /\ UNCHANGED <<dev, card, ready, offset, up, rx, down, given, early>>

(* So does ^C, wherever the command is. *)
AbortCommand ==
    /\ client.command # Idle
    /\ client' = [client EXCEPT !.command = Idle]
    /\ faults' = faults \cup {"aborted"}
    /\ UNCHANGED <<dev, card, ready, offset, up, rx, down, given, early>>

(* uart_input_handle_magic_words, for one character. *)
Matched(word, char) ==
    IF Magic[word.offset + 1] # char THEN [offset |-> 0, ready |-> FALSE]
    ELSE IF word.offset + 1 = Len(Magic) THEN [offset |-> 0, ready |-> TRUE]
    ELSE [offset |-> word.offset + 1, ready |-> FALSE]

(* What each further character of a text makes of it. *)
Hearing(word, text) ==
    LET heard[i \in 0 .. Len(text)] == IF i = 0 THEN word ELSE Matched(heard[i - 1], text[i])
    IN  heard

(* The main loop and the wait read what has come in, in pieces of any      *)
(* length; the wait looks at the result only after a whole piece.          *)
HandleUartInput ==
    /\ client.command = Idle \/ (Waiting /\ ~ready)
    /\ \E n \in 1 .. Len(down) :
          LET word == Hearing([offset |-> offset, ready |-> ready], down)[n]
          IN  /\ offset' = word.offset /\ ready' = word.ready
              /\ down' = SubSeq(down, n + 1, Len(down))
    /\ UNCHANGED <<dev, card, client, up, rx, given, early, faults>>
-----------------------------------------------------------------------------
(* A token reaches the receiver.  Where the device reads, it keeps up with *)
(* the line; where it does not, what the receiver cannot hold is gone.     *)
Arrive ==
    /\ up # <<>> /\ (Len(rx) < Depth \/ ~Reading)
    /\ up' = Tail(up)
    /\ rx' = IF Len(rx) < Depth THEN Append(rx, Head(up)) ELSE rx
    /\ faults' = IF Len(rx) < Depth THEN faults ELSE faults \cup {"overrun"}
    /\ UNCHANGED <<dev, card, client, ready, offset, down, given, early>>

LinkInit ==
    /\ \E app \in Apps : dev = [app |-> app, at |-> "ready", packet |-> "none", size |-> 0,
                                paths |-> 0, left |-> 0, buffer |-> <<>>, written |-> 0,
                                cluster |-> 0, old |-> 0]
    /\ card = [i \in 1 .. OldSize |-> -1]
    /\ client = [command |-> Idle, at |-> 1, sent |-> 0, due |-> FALSE]
    /\ ready = FALSE /\ offset = 0
    /\ up = <<>> /\ rx = <<>> /\ down = Greeting
    /\ given = 0 /\ early = FALSE /\ faults = {}

Device == \/ SendMagicWord \/ ParsePacket \/ ReadArguments \/ GetPath \/ ReceiveData
          \/ Misread \/ OpenFile \/ WriteFile \/ TruncateFile
          \/ ChangeDirectory \/ ChangeMemory
Client == \/ WaitForMagicWord \/ SendMessage \/ UploadFile \/ EndCommand \/ CommandRaises

(* After a fault has been followed by a misread packet nothing is promised. *)
LinkNext ==
    /\ dev.at # "misled"
    /\ \/ Device \/ Client \/ HandleUartInput \/ Arrive \/ AbortCommand
       \/ \E c \in Commands : StartCommand(c)

Fairness == /\ WF_linkVars(dev.at # "misled" /\ Device) /\ WF_linkVars(dev.at # "misled" /\ Client)
            /\ WF_linkVars(dev.at # "misled" /\ HandleUartInput)
            /\ WF_linkVars(dev.at # "misled" /\ Arrive)

LinkSpec == LinkInit /\ [][LinkNext]_linkVars /\ Fairness
-----------------------------------------------------------------------------
(* The device takes no byte for something else than it was sent as, unless *)
(* a file could not be opened or written, a command was abandoned half     *)
(* way, one sent its header without waiting for a ready word (file_move,   *)
(* file_remove, list_dir), or zeros for more than a chunk were sent at     *)
(* once: both ends count packets the same way, also where ready words were *)
(* heard late or early, and a command that waits never sends faster than   *)
(* the device reads.                                                       *)
FramesAgree ==
    dev.at = "misled" => early \/ faults \cap {"open", "write", "aborted"} # {}

(* Whenever uartupld is ready for a packet after uploads without fault,    *)
(* the file on the card is the one that was sent last: every chunk in its  *)
(* place, zeros where the source had become shorter, no tail of the file   *)
(* it replaced.  An upload of several chunks over a file that was longer   *)
(* than one counts as a fault, "overlong", as it does break this.          *)
UploadIsSource ==
    (faults = {} /\ dev.at = "type" /\ dev.packet = "create" /\ dev.written > 0) =>
        /\ Len(card) = dev.size
        /\ \E avail \in Sizes : card = [i \in 1 .. dev.size |-> IF i <= avail THEN i ELSE 0]

(* A command ends, unless there is a fault or uartrun has handed over to   *)
(* the program it loaded: neither side waits for a word or a byte the      *)
(* other will not send.                                                    *)
CommandsEnd ==
    (client.command # Idle) ~> (client.command = Idle \/ faults \ {"overlong"} # {}
                                \/ dev.at = "left")
=============================================================================
