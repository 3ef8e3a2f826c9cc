---------------------------- MODULE PipedArguments ----------------------------
(***************************************************************************)
(* The arguments of the bip138 program (parse_cli, read_args_within and    *)
(* read_stdin_args in src/bin/main.rs).  Standard input, unless it is a    *)
(* terminal, is read by a thread of its own, and what it reads is added to *)
(* the command line.  The program on the other end of the pipe may write   *)
(* late, stop writing and leave the pipe open, or write what is not UTF-8; *)
(* the command waits for a time and goes on.                               *)
(***************************************************************************)
EXTENDS Recursion

CONSTANT CommandLines   \* [typed, terminal, piped], see CommandLineType

VARIABLES
    line,         \* the command line and what is piped into it
    written,      \* number of lines the producer has written
    closed,       \* the producer has closed the pipe
    reader,       \* control state of the reader: "off", "reading", "done"
    nRead,        \* number of lines it has taken from the pipe
    collected,    \* the arguments it has split them into
    channel,      \* what it sent to the command
    cli,          \* control state of the command: "start", "wait", "parsed", "failed"
    arguments     \* what the command line is parsed from

cliVars == <<line, written, closed, reader, nRead, collected, channel, cli, arguments>>

\* a line that is not UTF-8 has no words
NotUtf8 == [utf8 |-> FALSE, words |-> <<>>]
Line(ws) == [utf8 |-> TRUE, words |-> ws]

Nothing == [is |-> "nothing"]
Failed == [is |-> "StdinError"]
Args(ws) == [is |-> "args", args |-> ws]

CliInit ==
    /\ line \in CommandLines
    /\ written = 0
    /\ closed = FALSE
    /\ reader = "off"
    /\ nRead = 0
    /\ collected = <<>>
    /\ channel = Nothing
    /\ cli = "start"
    /\ arguments = <<>>

-----------------------------------------------------------------------------
\* the producer writes its lines in order and may close the pipe then
WriteLine ==
    /\ ~line.terminal /\ written < Len(line.piped)
    /\ written' = written + 1
    /\ UNCHANGED <<line, closed, reader, nRead, collected, channel, cli, arguments>>

ClosePipe ==
    /\ ~line.terminal /\ ~closed /\ written = Len(line.piped)
    /\ closed' = TRUE
    /\ UNCHANGED <<line, written, reader, nRead, collected, channel, cli, arguments>>

-----------------------------------------------------------------------------
(* The reader                                                              *)

Next1 == line.piped[nRead + 1]

\* mutant: the arguments are sent as they come
ReadLineSending ==
    /\ reader = "reading" /\ nRead < written /\ Next1.utf8
    /\ nRead' = nRead + 1
    /\ collected' = collected \o Next1.words
    /\ channel' = Args(collected')
    /\ UNCHANGED <<line, written, closed, reader, cli, arguments>>
ReadLine ==
    /\ reader = "reading" /\ nRead < written /\ Next1.utf8
    /\ nRead' = nRead + 1
    /\ collected' = collected \o Next1.words
    /\ UNCHANGED <<line, written, closed, reader, channel, cli, arguments>>

ReadFails ==
    /\ reader = "reading" /\ nRead < written /\ ~Next1.utf8
    /\ reader' = "done"
    /\ nRead' = nRead + 1
    /\ channel' = Failed
    /\ UNCHANGED <<line, written, closed, collected, cli, arguments>>

ReadEnd ==
    /\ reader = "reading" /\ nRead = written /\ closed
    /\ reader' = "done"
    /\ channel' = Args(collected)
    /\ UNCHANGED <<line, written, closed, nRead, collected, cli, arguments>>

-----------------------------------------------------------------------------
(* The command                                                             *)

StartCli ==
    /\ cli = "start"
    /\ cli' = IF line.terminal THEN "parsed" ELSE "wait"
    /\ reader' = IF line.terminal THEN "off" ELSE "reading"
    /\ arguments' = line.typed
    /\ UNCHANGED <<line, written, closed, nRead, collected, channel>>

ReceiveArgs ==
    /\ cli = "wait" /\ channel # Nothing
    /\ IF channel = Failed THEN cli' = "failed" /\ UNCHANGED arguments
       ELSE cli' = "parsed" /\ arguments' = line.typed \o channel.args
    /\ UNCHANGED <<line, written, closed, reader, nRead, collected, channel>>

\* mutant: recv without a time limit
GiveUpAtEnd ==
    /\ cli = "wait" /\ channel = Nothing /\ reader = "done"
    /\ cli' = "parsed"
    /\ UNCHANGED <<line, written, closed, reader, nRead, collected, channel, arguments>>
\* after STDIN_TIMEOUT the command line is taken as it was typed
GiveUp ==
    /\ cli = "wait" /\ channel = Nothing
    /\ cli' = "parsed"
    /\ UNCHANGED <<line, written, closed, reader, nRead, collected, channel, arguments>>

Producer == WriteLine \/ ClosePipe
Reader == ReadLine \/ ReadFails \/ ReadEnd
Parser == StartCli \/ ReceiveArgs \/ GiveUp

\* the reader and the producer are of no consequence once the command runs
CliStep == Parser \/ (cli \in {"start", "wait"} /\ (Producer \/ Reader))

-----------------------------------------------------------------------------
(* Properties                                                              *)

\* the words of the first n lines
WordsOf(lines, n) == Concat([i \in DOMAIN lines |-> lines[i].words], n)
AllWords(lines) == WordsOf(lines, Len(lines))

\* The command runs on what was typed followed by all that was piped, or on
\* what was typed alone, never on a part of the pipe, at whatever moment the
\* wait ended; and it stops if the pipe held something else than text up to
\* where it was read (parse_cli, read_args_within, read_stdin_args).
ArgumentsWhole ==
    /\ cli = "parsed" =>
          \/ arguments = line.typed
          \/ /\ arguments = line.typed \o AllWords(line.piped)
             /\ \A i \in DOMAIN line.piped : line.piped[i].utf8
    /\ cli = "failed" => \E i \in DOMAIN line.piped : ~line.piped[i].utf8

\* The doc comment of STDIN_TIMEOUT: the command does not block on a pipe that
\* never delivers.
CommandStarts == <>(cli \in {"parsed", "failed"})
=============================================================================
