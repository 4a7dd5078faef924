----------------------------- MODULE McpRegistry -----------------------------
(***************************************************************************)
(* The MCP configuration file and the registry's copy of it.               *)
(* slackagent/mcpconfig.py: Registry, parse, parse_server.                 *)
(*                                                                         *)
(* The file describes one server.  stamp is st_mtime, and every write has  *)
(* one of its own.  auth says how the server is authenticated to: 0 with a *)
(* header, otherwise the number of the OAuth grant.  odd is what the       *)
(* parser does not expect: bytes that are not text, users that are not an  *)
(* object, a limit that is not a number.                                   *)
(***************************************************************************)
EXTENDS Naturals

CONSTANTS Docs,       \* what an editor may leave in the file
          MaxWrites,  \* bound: times the file is written
          MaxAuth,    \* bound: grants
          None

Doc == [keys : BOOLEAN, type : {"http", "stdio", "sse"}, url : {"none", "empty", "some"},
        command : BOOLEAN,
        proxy : {"none", "http", "https", "socks"}, proxyCa : BOOLEAN,
        proxyAuth : {"none", "whole", "partial"}, mode : {"shared", "per_user", "both"},
        users : BOOLEAN, fallback : BOOLEAN, auth : 0..MaxAuth,
        odd : {"no", "bytes", "users", "limits"}]

ASSUME RegistryAssumption ==
  /\ {MaxWrites, MaxAuth} \subseteq Nat
  /\ Docs \subseteq Doc
  /\ None \notin Doc

VARIABLES
  file,      \* the file: there or not, its text, 0600 or not, and st_mtime
  served,    \* Registry._servers: the server it describes, None for no servers
  known,     \* Registry._mtime, 0 for None
  skipped    \* history: since the last write the mode changed, or a read failed

registry == <<served, known>>
config   == <<file, served, known, skipped>>

RegistryTypeOK ==
  /\ file \in [present : BOOLEAN, doc : Doc, private : BOOLEAN, stamp : 1..(MaxWrites + 1)]
  /\ served \in Doc \cup {None}
  /\ known \in 0..(MaxWrites + 1)
  /\ skipped \in BOOLEAN

-----------------------------------------------------------------------------
(* Parsing.                                                                *)

\* _unknown: a key nobody knows refuses the file.
KnownKeys(d) == d.keys

\* The proxy of an http server, its CA and its credentials.
ProxyParses(d) ==
  /\ d.proxy # "none" => d.type = "http" /\ d.proxy \in {"http", "https"}
  /\ d.proxyCa => d.proxy = "https"
  /\ d.proxyAuth # "none" => d.proxy # "none" /\ d.proxyAuth = "whole"

ModeParses(d) == d.mode \in {"shared", "per_user"}

CredentialParses(d) ==
  /\ ModeParses(d)
  /\ d.mode = "per_user" => d.users \/ d.fallback

\* What an http server needs is a string, which may be empty.
TransportParses(d) ==
  /\ KnownKeys(d)
  /\ d.type \in {"http", "stdio"}
  /\ d.type = "http" => d.url # "none"
  /\ d.type = "stdio" => d.command
  /\ ProxyParses(d)

\* parse_server
Parses(d) == d.odd = "no" /\ TransportParses(d) /\ CredentialParses(d)

\* What is odd raises where the parser comes to it, an exception that _refresh does not
\* catch.
Raises(d) ==
  \/ d.odd = "bytes"
  \/ d.odd = "users" /\ TransportParses(d) /\ ModeParses(d)
  \/ d.odd = "limits" /\ TransportParses(d) /\ CredentialParses(d)

-----------------------------------------------------------------------------
(* Registry._refresh, which every look at the servers begins with.         *)

Stamp == IF file.present THEN file.stamp ELSE 0
Changed == file.stamp # known

\* Mutant: a file others can read is loaded all the same.
LoadAnyway == IF Parses(file.doc) THEN file.doc ELSE served

\* A file others can read is refused; one that does not parse leaves the last good copy.
Load == IF ~ file.private THEN None
        ELSE IF Parses(file.doc) THEN file.doc ELSE served

\* What servers() returns now.
Refreshed == IF ~ file.present THEN None ELSE IF Changed THEN Load ELSE served

\* Then there is no look: the exception ends the caller's operation, the copy and the
\* stamp stay, and the next look raises again.
LookRaises == file.present /\ Changed /\ file.private /\ Raises(file.doc)

Look ==
  /\ ~ LookRaises
  /\ served' = Refreshed /\ known' = Stamp
  /\ UNCHANGED <<file, skipped>>

\* OSError in the read: the last copy stays, and the stamp counts as seen.
LookFails ==
  /\ file.present /\ Changed /\ file.private
  /\ known' = file.stamp /\ skipped' = TRUE
  /\ UNCHANGED <<file, served>>

\* A new daemon knows nothing of the file.
ForgetConfig == served' = None /\ known' = 0 /\ UNCHANGED <<file, skipped>>

-----------------------------------------------------------------------------
(* What is done to the file.                                               *)

\* A new text under a new stamp.
Write(d, private) ==
  /\ file.stamp <= MaxWrites
  /\ file' = [present |-> TRUE, doc |-> d, private |-> private, stamp |-> file.stamp + 1]
  /\ skipped' = FALSE
  /\ UNCHANGED registry

\* An editor leaves how the server is authenticated to alone.
Edit == \E d \in Docs : d.auth = file.doc.auth /\ Write(d, file.private)

\* chmod leaves st_mtime alone.
Chmod ==
  /\ file.present /\ file' = [file EXCEPT !.private = ~ @]
  /\ skipped' = TRUE
  /\ UNCHANGED registry

Remove ==
  /\ file.present /\ file' = [file EXCEPT !.present = FALSE]
  /\ UNCHANGED <<registry, skipped>>

-----------------------------------------------------------------------------
\* The file is what counts: once it is written 0600 and parses, the next look serves
\* exactly it, however it was broken, open to others or missing before; and one that
\* others can read serves nothing.  Unless its mode was changed, or a read failed, after
\* it was written: neither moves the mtime.
FileIsObeyed ==
  file.present /\ ~ skipped =>
    /\ file.private /\ Parses(file.doc) => Refreshed = file.doc
    /\ ~ file.private => Refreshed = None

\* A server that is served has what its transport needs, though the url of an http server
\* may be the empty string, and somebody may use it.
ServedIsUsable ==
  served # None =>
    /\ \/ served.type = "http" /\ served.url # "none"
       \/ served.type = "stdio" /\ served.command
    /\ served.mode = "shared" \/ served.users \/ served.fallback
    /\ served.proxyCa => served.type = "http" /\ served.proxy = "https"
==============================================================================
