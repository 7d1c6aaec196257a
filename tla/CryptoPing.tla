------------------------------ MODULE CryptoPing ------------------------------
(***************************************************************************)
(* Darshana's cryptographic ping.  Every receiver starts a CryptoPing      *)
(* server in the background; the server creates an RSA key pair in two     *)
(* files unless pub.key exists, and signs the nonces of clients.  Every    *)
(* monitor pings several times in a row; a client fetches the server's     *)
(* public key once into a file that all the monitors of its host share.    *)
(*                                                                         *)
(* A file is absent (NoFile), Empty (opened for writing, the buffered text *)
(* not yet flushed), or holds the key of the server that wrote it.  The    *)
(* server that generated a key stands for it.  What Python buffers is lost *)
(* when its process is killed.  Sockets are closed with their process or   *)
(* thread, so a peer that waits is woken by an error; there is no time-out *)
(* on either side.                                                         *)
(***************************************************************************)
EXTENDS Integers, FiniteSets

CONSTANTS Servers,   \* CryptoPing server processes, one per start of a receiver
          Monitors,  \* Darshana clients of one host that ping the destination
          Pings,     \* pings in a row (5 in runPing)
          MaxKills,  \* bound: processes killed
          NoFile, Empty

ASSUME PingAssumption ==
    /\ Pings \in Nat \ {0} /\ MaxKills \in Nat
    /\ NoFile # Empty /\ {NoFile, Empty} \cap Servers = {}

VARIABLES
    pri, pub,   \* pri.key and pub.key on the receiver's host
    cache,      \* <ip>pub.key on the monitors' host
    spc,        \* the servers' places
    cpc,        \* the places of each monitor's current ping
    peer,       \* the server the ping is connected to
    key,        \* the key in the client's memory: received, then imported
    todo,       \* pings this monitor has still to make
    rtts,       \* measurements: entries of myNodes
    kills,
    served,     \* history: some connection was served
    raced,      \* history: a server looked for pub.key while another created keys
    torn,       \* history: a process was killed between opening and closing
                \* pub.key or its copy
    hit         \* history: how the monitor's last ping ended

keyFiles == <<pri, pub>>
pingVars == <<cpc, peer, key, todo, rtts, hit>>
history  == <<kills, served, raced, torn>>
vars == <<keyFiles, cache, spc, pingVars, history>>

File == Servers \cup {NoFile, Empty}

TypeOK ==
    /\ pri \in File /\ pub \in File /\ cache \in File
    /\ spc \in [Servers -> {"off", "check", "openPri", "openPub", "closePub", "closePri",
                            "bind", "listening", "ended"}]
    /\ cpc \in [Monitors -> {"start", "check", "get", "write", "close", "import", "nonce",
                             "done"}]
    /\ peer \in [Monitors -> Servers \cup {NoFile}] /\ key \in [Monitors -> File]
    /\ todo \in [Monitors -> 0 .. Pings] /\ rtts \in [Monitors -> 0 .. Pings]
    /\ kills \in 0 .. MaxKills /\ served \in BOOLEAN
    /\ raced \in BOOLEAN /\ torn \in BOOLEAN
    /\ hit \in [Monitors -> {"none", "refused", "early", "cut", "unverified", "verified"}]

Init ==
    /\ pri = NoFile /\ pub = NoFile /\ cache = NoFile
    /\ spc = [s \in Servers |-> "off"]
    /\ cpc = [m \in Monitors |-> "start"] /\ peer = [m \in Monitors |-> NoFile]
    /\ key = [m \in Monitors |-> NoFile]
    /\ todo = [m \in Monitors |-> Pings] /\ rtts = [m \in Monitors |-> 0]
    /\ kills = 0 /\ served = FALSE /\ raced = FALSE /\ torn = FALSE
    /\ hit = [m \in Monitors |-> "none"]

Goto(s, l) == spc' = [spc EXCEPT ![s] = l]

\* A server that found no pub.key and has not yet flushed both files.
Generating(s) == spc[s] \in {"openPri", "openPub", "closePub", "closePri"}

-----------------------------------------------------------------------------
(* CryptoPingServer.py                                                     *)

\* run_darshana_server of a receiver that starts; nobody ever stops the server.
StartServer(s) ==
    /\ spc[s] = "off" /\ Goto(s, "check")
    /\ UNCHANGED <<keyFiles, cache, pingVars, history>>

\* Mutant of CheckKeys: every server creates new keys.
CheckKeysNot(s) ==
    /\ spc[s] = "check" /\ Goto(s, "openPri")
    /\ raced' = (raced \/ \E t \in Servers : Generating(t))
    /\ UNCHANGED <<keyFiles, cache, pingVars, kills, served, torn>>

\* os.path.isfile("pub.key"): whatever is in it.
CheckKeys(s) ==
    /\ spc[s] = "check"
    /\ Goto(s, IF pub = NoFile THEN "openPri" ELSE "bind")
    /\ raced' = (raced \/ \E t \in Servers : Generating(t))
    /\ UNCHANGED <<keyFiles, cache, pingVars, kills, served, torn>>

\* Both files are opened, which truncates them, and written to; the text reaches
\* them when they are closed, pub.key first.
OpenPri(s) ==
    /\ spc[s] = "openPri" /\ Goto(s, "openPub")
    /\ pri' = Empty
    /\ UNCHANGED <<pub, cache, pingVars, history>>

OpenPub(s) ==
    /\ spc[s] = "openPub" /\ Goto(s, "closePub")
    /\ pub' = Empty
    /\ UNCHANGED <<pri, cache, pingVars, history>>

ClosePub(s) ==
    /\ spc[s] = "closePub" /\ Goto(s, "closePri")
    /\ pub' = s
    /\ UNCHANGED <<pri, cache, pingVars, history>>

\* Mutant of ClosePri: the file is left open, its text in the buffer.
ClosePriNot(s) ==
    /\ spc[s] = "closePri" /\ Goto(s, "bind")
    /\ UNCHANGED <<keyFiles, cache, pingVars, history>>

ClosePri(s) ==
    /\ spc[s] = "closePri" /\ Goto(s, "bind")
    /\ pri' = s
    /\ UNCHANGED <<pub, cache, pingVars, history>>

\* bind() without SO_REUSEADDR: refused while another server listens, and for a
\* while after one that has served; the exception ends the process.
Bind(s) ==
    /\ spc[s] = "bind"
    /\ \/ Goto(s, "listening") /\ \A t \in Servers : spc[t] # "listening"
       \/ Goto(s, "ended") /\ (served \/ \E t \in Servers : spc[t] = "listening")
    /\ UNCHANGED <<keyFiles, cache, pingVars, history>>

-----------------------------------------------------------------------------
(* CryptoPingClient.py, one process per ping of runPing.  The server's     *)
(* thread for the connection, handle_connection, only answers: each of its *)
(* answers is one step together with the client's receipt of it.           *)

\* A ping ends with an outcome: runPing counts it if it is verified, and the
\* monitor goes on to its next ping.
PingEndsWith(m, outcome) ==
    /\ cpc' = [cpc EXCEPT ![m] = IF todo[m] = 1 THEN "done" ELSE "start"]
    /\ todo' = [todo EXCEPT ![m] = @ - 1]
    /\ rtts' = [rtts EXCEPT ![m] = IF outcome = "verified" THEN @ + 1 ELSE @]
    /\ hit' = [hit EXCEPT ![m] = outcome]
    /\ peer' = [peer EXCEPT ![m] = NoFile]
    /\ key' = [key EXCEPT ![m] = NoFile]

Step(m, l) == /\ cpc' = [cpc EXCEPT ![m] = l]
              /\ UNCHANGED <<todo, rtts, hit>>

\* The connection comes first; without a server it is refused.
Connect(m) ==
    /\ cpc[m] = "start"
    /\ \/ \E s \in Servers :
             /\ spc[s] = "listening"
             /\ peer' = [peer EXCEPT ![m] = s] /\ served' = TRUE
             /\ Step(m, "check") /\ UNCHANGED key
       \/ /\ \A s \in Servers : spc[s] # "listening"
          /\ PingEndsWith(m, "refused") /\ UNCHANGED served
    /\ UNCHANGED <<keyFiles, cache, spc, kills, raced, torn>>

\* The order is GETPUB if the key is not cached, whatever is in the file.
CheckCache(m) ==
    /\ cpc[m] = "check"
    /\ Step(m, IF cache = NoFile THEN "get" ELSE "import")
    /\ UNCHANGED <<keyFiles, cache, spc, peer, key, history>>

Up(m) == spc[peer[m]] = "listening"

\* Mutant of GetPub: the server compares the order with "getpub" and then waits
\* for a nonce, while the client waits for the key.
GetPubUnanswered(m) ==
    /\ cpc[m] = "get" /\ ~Up(m)
    /\ PingEndsWith(m, "cut")
    /\ UNCHANGED <<keyFiles, cache, spc, history>>

\* The server sends what pub.key holds at this moment, nothing included.
GetPub(m) ==
    /\ cpc[m] = "get"
    /\ \/ /\ Up(m) /\ key' = [key EXCEPT ![m] = pub]
          /\ Step(m, "write") /\ UNCHANGED peer
       \/ ~Up(m) /\ PingEndsWith(m, "cut")
    /\ UNCHANGED <<keyFiles, cache, spc, history>>

\* create_file: opening truncates, closing flushes.
OpenCache(m) ==
    /\ cpc[m] = "write" /\ Step(m, "close")
    /\ cache' = Empty
    /\ UNCHANGED <<keyFiles, spc, peer, key, history>>

CloseCache(m) ==
    /\ cpc[m] = "close" /\ Step(m, "import")
    /\ cache' = key[m]
    /\ UNCHANGED <<keyFiles, spc, peer, key, history>>

\* Mutant of ImportKey: a text that is no key is taken for one.
ImportAnything(m) ==
    /\ cpc[m] = "import"
    /\ key' = [key EXCEPT ![m] = cache]
    /\ Step(m, "nonce") /\ UNCHANGED peer
    /\ UNCHANGED <<keyFiles, cache, spc, history>>

\* RSA.importKey raises on an empty file.
ImportKey(m) ==
    /\ cpc[m] = "import"
    /\ \/ /\ cache # Empty /\ key' = [key EXCEPT ![m] = cache]
          /\ Step(m, "nonce") /\ UNCHANGED peer
       \/ cache = Empty /\ PingEndsWith(m, "early")
    /\ UNCHANGED <<keyFiles, cache, spc, history>>

\* The client verifies the signature with the key it imported.
Verdict(m) == IF pri = key[m] THEN "verified" ELSE "unverified"

\* The server reads pri.key for every nonce; if it holds no key its thread dies.
SignNonce(m) ==
    /\ cpc[m] = "nonce"
    /\ PingEndsWith(m, IF ~Up(m) \/ pri = Empty THEN "cut" ELSE Verdict(m))
    /\ UNCHANGED <<keyFiles, cache, spc, history>>

-----------------------------------------------------------------------------
KillServer(s) ==
    /\ spc[s] \notin {"off", "ended"} /\ kills < MaxKills
    /\ Goto(s, "ended")
    /\ kills' = kills + 1
    /\ torn' = (torn \/ spc[s] \in {"closePub", "closePri"})
    /\ UNCHANGED <<keyFiles, cache, pingVars, served, raced>>

KillClient(m) ==
    /\ cpc[m] \notin {"start", "done"} /\ kills < MaxKills
    /\ PingEndsWith(m, "cut")
    /\ kills' = kills + 1
    /\ torn' = (torn \/ cpc[m] = "close")
    /\ UNCHANGED <<keyFiles, cache, spc, served, raced>>

Server(s) == \/ CheckKeys(s) \/ OpenPri(s) \/ OpenPub(s) \/ ClosePub(s) \/ ClosePri(s)
             \/ Bind(s)

Ping(m) == \/ Connect(m) \/ CheckCache(m) \/ GetPub(m) \/ OpenCache(m) \/ CloseCache(m)
           \/ ImportKey(m) \/ SignNonce(m)

Next == \/ \E s \in Servers : StartServer(s) \/ Server(s) \/ KillServer(s)
        \/ \E m \in Monitors : Ping(m) \/ KillClient(m)

Spec == Init /\ [][Next]_vars

\* Processes that run are scheduled; starts and kills need not happen.
FairSpec == /\ Spec
            /\ \A s \in Servers : WF_vars(Server(s))
            /\ \A m \in Monitors : WF_vars(Ping(m))

-----------------------------------------------------------------------------
\* A server that listens signs with the key it hands out, and the copy that the
\* monitors share is that key unless one of them is writing it: through any
\* number of starts of servers, monitors fetching the key at the same time, and
\* kills of a server before it created pub.key, because the later start then
\* creates both files again.  Not so after a kill between the opening and the
\* closing of pub.key (isfile is content with what is left, for ever), of a
\* client in the same place, or when a server started while another was creating
\* keys: it may create its own, or serve files that are still empty.
KeysMatch ==
    (\E s \in Servers : spc[s] = "listening") /\ ~torn /\ ~raced =>
        /\ pri = pub /\ pub \in Servers
        /\ \/ cache \in {NoFile, pub}
           \/ cache = Empty /\ \E m \in Monitors : cpc[m] = "close"

\* runPing's verdicts: that the signature is wrong ("Traffic may have been
\* intercepted") is never due to a kill or to another monitor at work, only to
\* servers that started at once; a connection is cut only then or by a kill.
VerdictsSound ==
    \A m \in Monitors :
        /\ hit[m] = "unverified" => raced
        /\ hit[m] = "cut" => raced \/ kills > 0

\* No damage to the files lasts unnoticed: while no process was ever killed and
\* no servers raced, a monitor loses at most the pings it made before the first
\* server listened and those it made while the copy was being written.
\* Afterwards every ping is measured.
PingsMeasured ==
    [][\A m \in Monitors :
          /\ todo'[m] # todo[m] /\ rtts'[m] = rtts[m] /\ kills' = 0 /\ ~raced
          => \/ \A s \in Servers : spc[s] # "listening"
             \/ \E n \in Monitors \ {m} : cpc[n] = "close"]_vars

\* Every monitor gets through its pings, whatever is killed, though neither side
\* has a time-out: somebody always answers or hangs up (FairSpec).
PingsEnd == \A m \in Monitors : <>(cpc[m] = "done")
=============================================================================
