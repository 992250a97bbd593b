--------------------------- MODULE CommandSigning ---------------------------
(***************************************************************************)
(* How the controller comes to sign commands: the configuration it         *)
(* resolves (config.go, hsm/config.go), the checks of its start and the    *)
(* keys it provisions (main.go), the two key stores (softhsm.go,           *)
(* pkcs11_cgo.go; pkcs11_windows.go does the same through another          *)
(* binding), and the envelopes it issues (orchestrator.Sign).  Operators   *)
(* run `janus-server hsm keygen` and `hsm rm` beside it, in processes of   *)
(* their own, on the same token.                                           *)
(*                                                                         *)
(* A key pair is a number, a public key and the private key that belongs   *)
(* to it are the same number, and a signature is the number of the key     *)
(* that made it.  The token holds objects of one label; which of several   *)
(* FindObjects returns first is up to the token.                           *)
(***************************************************************************)
EXTENDS Naturals, FiniteSets

CONSTANTS
    Deployments,    \* the settings a controller may be run with
    MacKeys,        \* values of JANUS_COMMAND_SIGNING_KEY
    NoKey,          \* no key, no certificate
    MaxStarts,      \* starts of the controller
    MaxTokenErrors, \* PKCS#11 calls that fail
    MaxTools        \* runs of the hsm command line tool

Deployment == [hsm : {"", "disabled", "software", "pkcs11", "other"},
               signCommands : BOOLEAN,
               scheme : {"hmac", "ml-dsa"},
               keyFile : BOOLEAN,
               certified : {"none", "file", "first"},
               commandKey : {"missing", "short", "ok"},
               agentAuth : {"shared", "per-agent", "other"}, master : BOOLEAN,
               require : {"", "tls", "mtls", "1"},
               transport : {"plain", "tls", "mtls"}]

ASSUME SigningAssumption ==
    /\ Deployments \subseteq Deployment
    /\ NoKey \notin MacKeys \cup Nat
    /\ MaxStarts \in Nat /\ MaxTokenErrors \in Nat /\ MaxTools \in Nat

VARIABLES
    deploy,         \* the settings
    macKey,         \* the configured command key
    token,          \* objects on the PKCS#11 token, they survive restarts
    minted,         \* pairs generated so far; 0 is the pair of the key file
    stage,          \* where main is
    softStore,      \* SoftHSM2 of this process
    signer,         \* the orchestrator's signing fields
    envelope,       \* the last SignedDirective
    published,      \* public keys that served controllers have published
    tool,           \* where the command line tool is
    doomed,         \* the objects it is about to destroy
    tampered,       \* a tool changed the token, or the lookup of the pair failed
    starts, tokenErrors, tools

signingVars == <<deploy, macKey, token, minted, stage, softStore, signer, envelope,
                 published, tool, doomed, tampered, starts, tokenErrors, tools>>

Unsigned == [form |-> "unsigned"]
NewOrch == [mac |-> NoKey, macAt |-> "memory", sign |-> "none", key |-> NoKey,
            pub |-> NoKey, cert |-> NoKey]

\* LoadConfigFromEnv: anything but the three modes is the software store.
Backend ==
    IF deploy.hsm \in {"disabled", "software", "pkcs11"} THEN deploy.hsm
    ELSE "software"

\* FromEnv panics unless these hold.  JANUS_REQUIRE_TLS and _MTLS count only as
\* the word "true", and mTLS implies TLS.
ConfigAccepted ==
    /\ deploy.commandKey = "ok"
    /\ deploy.agentAuth \in {"shared", "per-agent"}
    /\ deploy.agentAuth = "per-agent" => deploy.master

\* main ends the process when the transport is less than what is required.
TransportAccepted ==
    /\ deploy.require \in {"tls", "mtls"} => deploy.transport # "plain"
    /\ deploy.require = "mtls" => deploy.transport = "mtls"

Objects(class) == {o.key : o \in {x \in token : x.class = class}}

HasObject_Misses(class) == FALSE

HasObject(class) == Objects(class) # {}

SigningInit ==
    /\ deploy \in Deployments /\ macKey \in MacKeys
    /\ token = {} /\ minted = 0 /\ stage = "down"
    /\ softStore = NoKey /\ signer = NewOrch /\ envelope = Unsigned
    /\ published = {} /\ tool = "idle" /\ doomed = {} /\ tampered = FALSE
    /\ starts = 0 /\ tokenErrors = 0 /\ tools = 0

TokenFails ==
    /\ tokenErrors < MaxTokenErrors
    /\ tokenErrors' = tokenErrors + 1 /\ UNCHANGED tampered

\* Every failure of the start ends the process before it serves.
RefuseStart ==
    /\ stage' = "refused" /\ softStore' = NoKey /\ signer' = NewOrch

-----------------------------------------------------------------------------
(* The start of the controller, in the order of main                       *)

\* The database, the policies, the notification channels and the transport.
StartController ==
    /\ stage \in {"down", "refused"} /\ starts < MaxStarts
    /\ starts' = starts + 1
    /\ softStore' = NoKey
    /\ IF ConfigAccepted /\ TransportAccepted
       THEN stage' = "backend" /\ signer' = [NewOrch EXCEPT !.mac = macKey]
       ELSE stage' = "refused" /\ signer' = NewOrch
    /\ UNCHANGED <<deploy, macKey, token, minted, envelope, published, tool, doomed,
                   tampered, tokenErrors, tools>>

\* NewBackend and newPKCS11: a token that cannot be opened ends the start.
OpenBackend ==
    /\ stage = "backend"
    /\ \/ stage' = "mac" /\ UNCHANGED <<softStore, signer, tampered, tokenErrors>>
       \/ Backend = "pkcs11" /\ TokenFails /\ RefuseStart
    /\ UNCHANGED <<deploy, macKey, token, minted, envelope, published, tool, doomed,
                   starts, tools>>

\* EnsureMACKey looks for the label; its error is dropped, which reads as absent.
FindMac ==
    /\ stage = "mac"
    /\ \/ /\ Backend = "disabled" \/ ~deploy.signCommands
          /\ stage' = "pair" /\ UNCHANGED <<signer, tampered, tokenErrors>>
       \/ /\ Backend = "software" /\ deploy.signCommands
          /\ stage' = "pair" /\ signer' = [signer EXCEPT !.macAt = "hsm"]
          /\ UNCHANGED <<tampered, tokenErrors>>
       \/ /\ Backend = "pkcs11" /\ deploy.signCommands
          /\ \/ /\ stage' = IF HasObject("secret") THEN "pair" ELSE "importMac"
                /\ UNCHANGED <<tampered, tokenErrors>>
             \/ stage' = "importMac" /\ TokenFails
          /\ signer' = [signer EXCEPT !.macAt = "hsm", !.mac = NoKey]
    /\ UNCHANGED <<deploy, macKey, token, minted, softStore, envelope, published, tool,
                   doomed, starts, tools>>

ImportMac ==
    /\ stage = "importMac"
    /\ \/ /\ token' = token \cup {[class |-> "secret", key |-> macKey]}
          /\ stage' = "pair" /\ UNCHANGED <<softStore, signer, tampered, tokenErrors>>
       \/ TokenFails /\ RefuseStart /\ UNCHANGED token
    /\ UNCHANGED <<deploy, macKey, minted, envelope, published, tool, doomed, starts,
                   tools>>

\* JANUS_COMMAND_SIG_SCHEME: the ML-DSA signature is optional.
NoPair ==
    /\ stage = "pair" /\ deploy.scheme = "hmac"
    /\ stage' = "serve"
    /\ UNCHANGED <<deploy, macKey, token, minted, softStore, signer, envelope, published,
                   tool, doomed, tampered, starts, tokenErrors, tools>>

\* SoftHSM2 is a CommandKeyManager too, so its key is taken and no key file is
\* considered; EnsureMLDSAKey generates the pair in memory.
SoftPair ==
    /\ stage = "pair" /\ deploy.scheme = "ml-dsa" /\ Backend = "software"
    /\ minted' = minted + 1 /\ softStore' = minted + 1
    /\ signer' = [signer EXCEPT !.sign = "soft", !.pub = minted + 1]
    /\ stage' = "cert"
    /\ UNCHANGED <<deploy, macKey, token, envelope, published, tool, doomed, tampered,
                   starts, tokenErrors, tools>>

\* Without an HSM: the key file, or a pair for this process.
FilePair ==
    /\ stage = "pair" /\ deploy.scheme = "ml-dsa" /\ Backend = "disabled"
    /\ LET key == IF deploy.keyFile THEN 0 ELSE minted + 1 IN
       /\ minted' = IF deploy.keyFile THEN minted ELSE minted + 1
       /\ signer' = [signer EXCEPT !.sign = "memory", !.key = key, !.pub = key]
    /\ stage' = "cert"
    /\ UNCHANGED <<deploy, macKey, token, softStore, envelope, published, tool, doomed,
                   tampered, starts, tokenErrors, tools>>

\* EnsureMLDSAKey on the token; an error of the lookup reads as absent.
FindPair ==
    /\ stage = "pair" /\ deploy.scheme = "ml-dsa" /\ Backend = "pkcs11"
    /\ \/ /\ stage' = IF HasObject("private") THEN "public" ELSE "generate"
          /\ UNCHANGED <<tampered, tokenErrors>>
       \/ /\ stage' = "generate" /\ tampered' = TRUE
          /\ tokenErrors < MaxTokenErrors /\ tokenErrors' = tokenErrors + 1
    /\ UNCHANGED <<deploy, macKey, token, minted, softStore, signer, envelope, published,
                   tool, doomed, starts, tools>>

\* genMLDSA: a fresh pair under the label, whatever the token holds already.
Generate ==
    LET k == minted + 1 IN
    /\ minted' = k
    /\ token' = token \cup {[class |-> "private", key |-> k],
                            [class |-> "public", key |-> k]}

GeneratePair ==
    /\ stage = "generate"
    /\ \/ Generate /\ stage' = "public" /\ UNCHANGED <<softStore, signer, tampered,
                                                       tokenErrors>>
       \/ TokenFails /\ RefuseStart /\ UNCHANGED <<minted, token>>
    /\ UNCHANGED <<deploy, macKey, envelope, published, tool, doomed, starts, tools>>

\* PublicKey reads the first public object of the label.
ReadPublic ==
    /\ stage = "public"
    /\ \/ \E k \in Objects("public") :
             /\ signer' = [signer EXCEPT !.sign = "token", !.pub = k]
             /\ stage' = "cert"
             /\ UNCHANGED <<softStore, tampered, tokenErrors>>
       \/ /\ Objects("public") = {} /\ RefuseStart
          /\ UNCHANGED <<tampered, tokenErrors>>
       \/ TokenFails /\ RefuseStart
    /\ UNCHANGED <<deploy, macKey, token, minted, envelope, published, tool, doomed,
                   starts, tools>>

\* A command certificate must be for the public key just read.
CheckCert_Skipped ==
    /\ stage = "cert"
    /\ stage' = "serve"
    /\ signer' = [signer EXCEPT !.cert = IF deploy.certified = "none" THEN NoKey
                                         ELSE IF deploy.certified = "file" THEN 0 ELSE 1]
    /\ UNCHANGED <<deploy, macKey, token, minted, softStore, envelope, published, tool,
                   doomed, tampered, starts, tokenErrors, tools>>

CheckCert ==
    LET leaf == IF deploy.certified = "file" THEN 0 ELSE 1 IN
    /\ stage = "cert"
    /\ \/ /\ deploy.certified = "none"
          /\ stage' = "serve" /\ UNCHANGED <<softStore, signer>>
       \/ /\ deploy.certified # "none" /\ leaf = signer.pub
          /\ stage' = "serve" /\ signer' = [signer EXCEPT !.cert = leaf]
          /\ UNCHANGED softStore
       \/ deploy.certified # "none" /\ leaf # signer.pub /\ RefuseStart
    /\ UNCHANGED <<deploy, macKey, token, minted, envelope, published, tool, doomed,
                   tampered, starts, tokenErrors, tools>>

\* The listeners open; the log shows the fingerprint that operators pin.
Serve ==
    /\ stage = "serve"
    /\ stage' = "serving"
    /\ published' = published \cup (IF signer.pub = NoKey THEN {} ELSE {signer.pub})
    /\ UNCHANGED <<deploy, macKey, token, minted, softStore, signer, envelope, tool,
                   doomed, tampered, starts, tokenErrors, tools>>

\* The process ends; memory is lost, and the command key may be rotated.
StopController ==
    /\ stage = "serving"
    /\ stage' = "down" /\ softStore' = NoKey /\ signer' = NewOrch
    /\ macKey' \in MacKeys
    /\ UNCHANGED <<deploy, token, minted, envelope, published, tool, doomed, tampered,
                   starts, tokenErrors, tools>>

-----------------------------------------------------------------------------
(* Orchestrator.Sign                                                       *)

\* hmacHex: the keys that may compute the MAC; none when the token has none.
MacWith ==
    IF signer.macAt = "hsm" /\ Backend = "pkcs11" THEN Objects("secret") ELSE {signer.mac}

\* mldsaSign: the private keys that may be found.
SignWith ==
    CASE signer.sign = "memory" -> {signer.key}
      [] signer.sign = "soft"   -> {softStore}
      [] signer.sign = "token"  -> Objects("private")
      [] OTHER                  -> {}

Envelope(m, s) ==
    IF signer.sign = "none" THEN [form |-> "hmac", mac |-> m]
    ELSE IF signer.cert # NoKey THEN [form |-> "v2", mac |-> m, sig |-> s, key |-> signer.cert]
    ELSE [form |-> "v1", mac |-> m, sig |-> s, key |-> signer.pub]

IssueCommand ==
    /\ stage = "serving"
    /\ \/ /\ \E m \in MacWith : IF signer.sign = "none" THEN envelope' = Envelope(m, NoKey)
                                ELSE \E s \in SignWith : envelope' = Envelope(m, s)
          /\ UNCHANGED <<tampered, tokenErrors>>
       \/ /\ MacWith = {} \/ (signer.sign # "none" /\ SignWith = {})
          /\ envelope' = Unsigned /\ UNCHANGED <<tampered, tokenErrors>>
       \/ /\ signer.sign = "token" \/ (signer.macAt = "hsm" /\ Backend = "pkcs11")
          /\ TokenFails /\ envelope' = Unsigned
    /\ UNCHANGED <<deploy, macKey, token, minted, stage, softStore, signer, published,
                   tool, doomed, starts, tools>>

-----------------------------------------------------------------------------
(* janus-server hsm keygen and hsm rm, beside the controller               *)

ToolKeygen ==
    /\ tool = "idle" /\ tools < MaxTools
    /\ tools' = tools + 1
    /\ tool' = IF HasObject("private") THEN "idle" ELSE "generate"
    /\ UNCHANGED <<deploy, macKey, token, minted, stage, softStore, signer, envelope,
                   published, doomed, tampered, starts, tokenErrors>>

ToolGenerates ==
    /\ tool = "generate"
    /\ Generate /\ tool' = "idle" /\ tampered' = TRUE
    /\ UNCHANGED <<deploy, macKey, stage, softStore, signer, envelope, published, doomed,
                   starts, tokenErrors, tools>>

\* RemoveKey finds the handles once and destroys them one by one.
ToolRemove ==
    /\ tool = "idle" /\ tools < MaxTools
    /\ tools' = tools + 1 /\ tool' = "remove" /\ doomed' = token
    /\ UNCHANGED <<deploy, macKey, token, minted, stage, softStore, signer, envelope,
                   published, tampered, starts, tokenErrors>>

ToolDestroys ==
    /\ tool = "remove"
    /\ \/ /\ doomed = {} /\ tool' = "idle"
          /\ UNCHANGED <<doomed, token, tampered, tokenErrors>>
       \/ \E o \in doomed :
             /\ token' = token \ {o} /\ doomed' = doomed \ {o} /\ tampered' = TRUE
             /\ UNCHANGED <<tool, tokenErrors>>
       \/ doomed # {} /\ TokenFails /\ tool' = "idle" /\ doomed' = {} /\ UNCHANGED token
    /\ UNCHANGED <<deploy, macKey, minted, stage, softStore, signer, envelope, published,
                   starts, tools>>

SigningNext ==
    \/ StartController \/ OpenBackend \/ FindMac \/ ImportMac
    \/ NoPair \/ SoftPair \/ FilePair \/ FindPair \/ GeneratePair
    \/ ReadPublic \/ CheckCert \/ Serve \/ StopController \/ IssueCommand
    \/ ToolKeygen \/ ToolGenerates \/ ToolRemove \/ ToolDestroys

SigningSpec == SigningInit /\ [][SigningNext]_signingVars

-----------------------------------------------------------------------------
(* Properties                                                              *)

\* Type invariant.
SigningTypeOK ==
    /\ deploy \in Deployments /\ macKey \in MacKeys
    /\ token \subseteq [class : {"private", "public"}, key : Nat]
                       \cup [class : {"secret"}, key : MacKeys]
    /\ minted \in Nat
    /\ stage \in {"down", "refused", "backend", "mac", "importMac", "pair", "generate",
                  "public", "cert", "serve", "serving"}
    /\ softStore \in Nat \cup {NoKey}
    /\ signer \in [mac : MacKeys \cup {NoKey}, macAt : {"memory", "hsm"},
                   sign : {"none", "memory", "soft", "token"},
                   key : Nat \cup {NoKey}, pub : Nat \cup {NoKey},
                   cert : Nat \cup {NoKey}]
    /\ published \subseteq Nat
    /\ tool \in {"idle", "generate", "remove"} /\ doomed \subseteq token
    /\ tampered \in BOOLEAN
    /\ starts \in Nat /\ tokenErrors \in Nat /\ tools \in Nat

\* Every signature a command carries verifies under the key or the certificate
\* it carries, over restarts, failing token calls and all backends, as long as no
\* tool changes the token and the lookup of the pair does not fail (main.go
\* refuses a certificate for another key so that commands stay verifiable).
SignedByCarriedKey ==
    ~tampered /\ envelope.form \in {"v1", "v2"} => envelope.sig = envelope.key

\* Signing fails closed whatever fails: a command carries every signature the
\* settings ask for, or none (Sign), and a v2 envelope exactly when a
\* certificate is configured.
SigningFailsClosed ==
    \/ envelope.form = "unsigned"
    \/ deploy.scheme = "hmac" /\ envelope.form = "hmac"
    \/ deploy.scheme = "ml-dsa" /\ envelope.form = (IF deploy.certified = "none" THEN "v1"
                                                    ELSE "v2")

\* With a key that persists (a token, or a key file that is used) every start
\* publishes the same fingerprint, so that pinned agents keep verifying.
FingerprintIsStable ==
    ~tampered /\ (Backend = "pkcs11" \/ (Backend = "disabled" /\ deploy.keyFile)) =>
        Cardinality(published) <= 1

\* What Sign promises the agents: a command leaves with every signature that is asked for,
\* and they verify, or without any; it is queued all the same, and the agent refuses it.
CommandsAreSigned == SignedByCarriedKey /\ SigningFailsClosed
=============================================================================
