---------------------------- MODULE SharedConfig ----------------------------
(***************************************************************************)
(* The one Config value of the loader (loader/config.go).  main passes its *)
(* address to the engine, the event processor and the API server, which    *)
(* all use it without a lock: POST /api/v1/config (handleConfig) assigns   *)
(* the whole struct while the event goroutine reads single fields.         *)
(*                                                                         *)
(* Go compiles the assignment to a copy of machine words in no promised    *)
(* order, so a POST is one PostConfig step, which decodes the body,        *)
(* followed by one CopyField step per field.  A field of one word is read  *)
(* whole.  AllowedExecutables is three words: see AllowedTorn.             *)
(***************************************************************************)
EXTENDS Integers

CONSTANTS
    Filenames,    \* the paths that occur in execve events and in the config
    Posters,      \* goroutines serving POST /api/v1/config
    Bodies,       \* the JSON bodies they decode: some fields of a Config
    ConfigFiles,  \* the contents of config.json at start, << >> when missing
    MaxPosts      \* bound: POSTs decoded in a behaviour

VARIABLES
    config,       \* *Config
    post,         \* what each poster has decoded, and its fields yet to copy
    posts         \* POSTs decoded so far, counted for the bound

configVars == <<config, post, posts>>

\* The type Config, cut down to the fields the event path reads.
Config ==
    [learning : BOOLEAN, threshold : Int, autoKill : BOOLEAN,
     windowSec : Int, maxConns : Int, allowed : SUBSET Filenames]

Fields == {"learning", "threshold", "autoKill", "windowSec", "maxConns",
           "allowed"}

DefaultConfig ==
    [learning |-> TRUE, threshold |-> 100, autoKill |-> FALSE,
     windowSec |-> 3600, maxConns |-> 50, allowed |-> {}]

\* var newConfig Config: every field has Go's zero value.
ZeroConfig ==
    [learning |-> FALSE, threshold |-> 0, autoKill |-> FALSE,
     windowSec |-> 0, maxConns |-> 0, allowed |-> {}]

\* json.Unmarshal into c leaves the fields the JSON omits as they are in c.
Unmarshal(json, c) ==
    [f \in Fields |-> IF f \in DOMAIN json THEN json[f] ELSE c[f]]

\* loadConfig starts from the defaults, handleConfig from the zero value.
LoadConfig(file) == Unmarshal(file, DefaultConfig)
DecodeBody(body) == Unmarshal(body, ZeroConfig)

ASSUME ConfigAssumption ==
    /\ MaxPosts \in Nat
    /\ \A file \in ConfigFiles : LoadConfig(file) \in Config
    /\ \A body \in Bodies : DecodeBody(body) \in Config

-----------------------------------------------------------------------------
NoPost == [new |-> ZeroConfig, left |-> {}]

ConfigInit ==
    /\ config \in {LoadConfig(file) : file \in ConfigFiles}
    /\ post = [h \in Posters |-> NoPost]
    /\ posts = 0

\* The handler decodes a body; a body that is not JSON is answered 400 and
\* changes nothing.  Copying a value over itself is seen by nobody: such
\* fields are left to copy only where another poster may write them meanwhile.
PostConfig(h, body) ==
    LET new == DecodeBody(body)
        left == {f \in Fields : new[f] # config[f] \/ Posters # {h}}
    IN  /\ post[h].left = {}
        /\ posts < MaxPosts
        /\ posts' = posts + 1
        /\ post' = [post EXCEPT ![h] = IF left = {} THEN NoPost
                                      ELSE [new |-> new, left |-> left]]
        /\ UNCHANGED config

\* One field of "*s.config = newConfig".
CopyField(h, f) ==
    /\ f \in post[h].left
    /\ config' = [config EXCEPT ![f] = post[h].new[f]]
    /\ post' = [post EXCEPT ![h] =
                   IF post[h].left = {f} THEN NoPost
                   ELSE [post[h] EXCEPT !.left = @ \ {f}]]
    /\ UNCHANGED posts

ConfigNext ==
    \E h \in Posters :
       \/ \E body \in Bodies : PostConfig(h, body)
       \/ \E f \in Fields : CopyField(h, f)

\* No POST is between its decoding and its reply.
ConfigQuiet == \A h \in Posters : post[h].left = {}

\* While a slice header is being copied its pointer and length may belong to
\* different slices: a search of it finds what it will.
AllowedTorn == \E h \in Posters : "allowed" \in post[h].left

\* The answers a search of AllowedExecutables for filename can give.
AllowedAnswers(filename) ==
    IF AllowedTorn THEN BOOLEAN ELSE {filename \in config.allowed}

\* The struct keeps its type whatever POSTs overlap.
ConfigTypeOK ==
    /\ config \in Config
    /\ post \in [Posters -> [new : Config, left : SUBSET Fields]]
    /\ posts \in 0..MaxPosts
=============================================================================
