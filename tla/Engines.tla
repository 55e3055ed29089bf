------------------------------- MODULE Engines -------------------------------
(***************************************************************************)
(* The parts of the back end that work beside the sessions: the engine of the *)
(* tasks, the engine of the alerts, a Telnet session and the log of commands. *)
(***************************************************************************)
EXTENDS FrontEndBounds

VARIABLES
    zone, ticked, task, online, batch, sending, edits, wanted, raced,
    lastRun,
    bucket, config, sessions, high, reachable, round, armed, client,
    reading, firing, excess,
    telnet, link, at, rest, asks, data, conv, message, pumpAt, place, lock,
    size, told, agreed, stop, shut, once, channel, open, signal, screen,
    ranging, made,
    accepting, logFile, buffer, commands, submitted, sends, total, odd

Timer == INSTANCE TaskEngine
Alarm == INSTANCE AlertEngine
Telnet == INSTANCE TelnetSession
Commands == INSTANCE CommandLog

\* The variables of each.
taskVars == <<zone, ticked, task, online, batch, sending, edits, wanted, raced, lastRun>>
alarmVars == <<bucket, config, sessions, high, reachable, round, armed, client, reading,
    firing, excess>>
telnetVars == <<telnet, link, at, rest, asks, data, conv, message, pumpAt, place, lock, size,
    told, agreed, stop, shut, once, channel, open, signal, screen, ranging, made>>
commandVars == <<accepting, logFile, buffer, commands, submitted, sends, total, odd>>
==============================================================================
