------------------------- MODULE FacilitatorStartup --------------------------
(***************************************************************************)
(* How the two facilitator services start: each walks through the networks *)
(* it is configured with, looks up a key, its algorithm and a node URL for *)
(* every one, and serves all of them or stops.  Both read one environment. *)
(***************************************************************************)
EXTENDS Integers, Sequences, SequencesExt

CONSTANTS
  Blank,          \* an entry of the list of networks with nothing in it
  SuffixOf,       \* for each network, networkEnvSuffix of it
  Environments,   \* values the variables may have, by suffix
  NetworkLists,   \* values CASPER_NETWORKS may have, split at the commas
  Ports,          \* values PORT may have
  GasBudgets,     \* values TRANSACTION_PAYMENT_MOTES may have
  DefaultMotes    \* what the scheme pays if it is not told: 7_000_000_000

ASSUME GasAssumption == GasBudgets \subseteq Nat /\ DefaultMotes \in Nat
ASSUME ListsAssumption == \A list \in NetworkLists : list \in Seq(DOMAIN SuffixOf \cup {Blank})

(***************************************************************************)
(* A port is a string: "digits" is a number, "suffixed" a number that has  *)
(* other characters behind it, "text" no number at all; n is the number.   *)
(***************************************************************************)
ASSUME PortsAssumption == Ports \subseteq [form : {"digits", "suffixed", "text"}, n : Int]

MaxPort == 65535

VARIABLES
  networks,  \* CASPER_NETWORKS
  port,      \* PORT
  env,       \* by suffix: pem "unset", "good" or "broken", algo, whether a URL is set
  motes,     \* TRANSACTION_PAYMENT_MOTES
  go,        \* the Go service
  js         \* the TypeScript service

vars == <<networks, port, env, motes, go, js>>

(***************************************************************************)
(* A service: the entry it looks at next, the networks found incomplete,   *)
(* those with a key, the gas its schemes pay, and its status: "reading",   *)
(* "resolving", "registering", "serving", or why it has stopped.           *)
(***************************************************************************)
Starting ==
  [status |-> "reading", next |-> 1, missing |-> {}, keys |-> {}, gas |-> DefaultMotes]

Listed(list) == ToSet(list) \ {Blank}

Init ==
  /\ networks \in NetworkLists
  /\ port \in Ports
  /\ env \in Environments
  /\ motes \in GasBudgets
  /\ go = Starting
  /\ js = Starting

Of(network) == env[SuffixOf[network]]

Incomplete(network) == Of(network).pem = "unset" \/ ~Of(network).url

-----------------------------------------------------------------------------
(* Go: Env.Parse, Env.resolveKeys, one network at a time, then main.       *)

\* env.Parse wants a whole number; main finds out whether one can listen at it.
GoParse ==
  /\ go.status = "reading"
  /\ go' = [go EXCEPT !.status = IF port.form = "digits" THEN "resolving" ELSE "bad port"]
  /\ UNCHANGED <<networks, port, env, motes, js>>

\* The ports that gin's Run can listen at: 0 lets the system choose one.
GoListensAt(n) == n \in 0..MaxPort

\* newPrivateKeyFromPEM; an algorithm that is not set is ed25519.
GoKeyLoads(network) ==
  Of(network).pem = "good" /\ Of(network).algo \in {"unset", "ed25519", "secp256k1"}

\* Mutation: a network without a URL is skipped, but not remembered.
GoResolveForgets ==
  /\ go.status = "resolving" /\ go.next <= Len(networks)
  /\ LET network == networks[go.next]
         onward  == [go EXCEPT !.next = @ + 1]
     IN  go' = IF network = Blank \/ (Incomplete(network) /\ Of(network).pem # "unset") THEN onward
               ELSE IF Incomplete(network) THEN [onward EXCEPT !.missing = @ \cup {network}]
               ELSE IF GoKeyLoads(network) THEN [onward EXCEPT !.keys = @ \cup {network}]
               ELSE [go EXCEPT !.status = "bad key"]
  /\ UNCHANGED <<networks, port, env, motes, js>>

GoResolve ==
  /\ go.status = "resolving" /\ go.next <= Len(networks)
  /\ LET network == networks[go.next]
         onward  == [go EXCEPT !.next = @ + 1]
     IN  go' = IF network = Blank THEN onward
               ELSE IF Incomplete(network) THEN [onward EXCEPT !.missing = @ \cup {network}]
               ELSE IF GoKeyLoads(network) THEN [onward EXCEPT !.keys = @ \cup {network}]
               ELSE [go EXCEPT !.status = "bad key"]
  /\ UNCHANGED <<networks, port, env, motes, js>>

\* The scheme is made without a configuration: motes are read and not used.
GoMain ==
  /\ go.status = "resolving" /\ go.next > Len(networks)
  /\ go' = [go EXCEPT !.status =
              IF go.missing # {} THEN "incomplete"
              ELSE IF Listed(networks) = {} THEN "no networks"
              ELSE IF ~(Listed(networks) \subseteq go.keys) THEN "no key"
              ELSE IF ~GoListensAt(port.n) THEN "bad port"
              ELSE "serving"]
  /\ UNCHANGED <<networks, port, env, motes, js>>

-----------------------------------------------------------------------------
(* TypeScript: parseEnv, then the loop that builds a signer per network.   *)

JsStops(why) == js' = [js EXCEPT !.status = why]

\* parseInt drops what is behind the number.
JsPortIsGood == port.form \in {"digits", "suffixed"} /\ port.n \in 1..MaxPort

JsReadGlobals ==
  /\ js.status = "reading"
  /\ IF ~JsPortIsGood THEN JsStops("bad port")
     ELSE IF Listed(networks) = {} THEN JsStops("no networks")
     ELSE IF motes = 0 THEN JsStops("bad gas")
     ELSE js' = [js EXCEPT !.status = "resolving", !.gas = motes]
  /\ UNCHANGED <<networks, port, env, motes, go>>

\* Mutation: only the default algorithm is known.
JsKnowsDefaultAlgorithm(network) == Of(network).algo \in {"unset", "ed25519"}

\* The algorithm's name is taken in lower case.
JsKnowsAlgorithm(network) ==
  Of(network).algo \in {"unset", "ed25519", "secp256k1", "ED25519"}

\* Blank entries are filtered out; the PEM is not looked into yet.
JsResolve ==
  /\ js.status = "resolving" /\ js.next <= Len(networks)
  /\ LET network == networks[js.next]
         onward  == [js EXCEPT !.next = @ + 1]
     IN  js' = IF network = Blank THEN onward
               ELSE IF Incomplete(network) THEN [onward EXCEPT !.missing = @ \cup {network}]
               ELSE IF JsKnowsAlgorithm(network) THEN [onward EXCEPT !.keys = @ \cup {network}]
               ELSE [js EXCEPT !.status = "bad key"]
  /\ UNCHANGED <<networks, port, env, motes, go>>

JsResolved ==
  /\ js.status = "resolving" /\ js.next > Len(networks)
  /\ js' = IF js.missing # {} THEN [js EXCEPT !.status = "incomplete"]
           ELSE [js EXCEPT !.status = "registering", !.next = 1]
  /\ UNCHANGED <<networks, port, env, motes, go>>

\* Mutation: a PEM that cannot be read is passed over.
JsRegisterUnread ==
  /\ js.status = "registering" /\ js.next <= Len(networks)
  /\ js' = [js EXCEPT !.next = @ + 1]
  /\ UNCHANGED <<networks, port, env, motes, go>>

\* buildSigner reads the PEM and throws if it cannot.
JsRegister ==
  /\ js.status = "registering" /\ js.next <= Len(networks)
  /\ LET network == networks[js.next]
     IN  js' = IF network = Blank \/ (network \in js.keys /\ Of(network).pem = "good")
               THEN [js EXCEPT !.next = @ + 1]
               ELSE [js EXCEPT !.status = "bad key"]
  /\ UNCHANGED <<networks, port, env, motes, go>>

JsListen ==
  /\ js.status = "registering" /\ js.next > Len(networks)
  /\ js' = [js EXCEPT !.status = "serving"]
  /\ UNCHANGED <<networks, port, env, motes, go>>

Next ==
  \/ GoParse \/ GoResolve \/ GoMain
  \/ JsReadGlobals \/ JsResolve \/ JsResolved \/ JsRegister \/ JsListen

Spec == Init /\ [][Next]_vars

-----------------------------------------------------------------------------
(* Properties.                                                             *)

Stopped == {"incomplete", "no networks", "no key", "bad key", "bad gas",
            "bad port"}

\* A service that serves, serves every network it was asked to, each with a whole
\* configuration and a key that loads: never the part of them that was in order.
ServesAllOrNothing ==
  \A service \in {go, js} : service.status = "serving" =>
    /\ service.keys = Listed(networks)
    /\ Listed(networks) # {}
    /\ \A network \in service.keys : ~Incomplete(network) /\ Of(network).pem = "good"

\* "Mirrors go/examples/facilitator/config.go": an environment that starts the Go
\* service starts the TypeScript one, with the same networks; but for a gas budget of 0
\* and for port 0, which Go takes for "any port".
JsStartsWhereGoDoes ==
  go.status = "serving" /\ motes > 0 /\ port.n # 0 =>
    /\ js.status \notin Stopped
    /\ js.status = "serving" => js.keys = go.keys

\* main's own look for a missing key ("no private key resolved") never finds one:
\* resolveKeys has stopped the service before.
KeysAreResolvedBefore == go.status # "no key"

\* A service that stops for missing variables has looked at every network, and names each
\* that misses one ("a single error listing every network"), unless a key that cannot be
\* used has stopped it before, with an error of its own.
ReportIsComplete ==
  \A service \in {go, js} : service.status = "incomplete" =>
    service.missing = {network \in Listed(networks) : Incomplete(network)}

-----------------------------------------------------------------------------
(* What the documentation says, and the code does not do.                  *)

\* TRANSACTION_PAYMENT_MOTES is the "gas budget for each settlement transaction".
GasIsAsConfigured ==
  \A service \in {go, js} : service.status = "serving" => service.gas = motes
=============================================================================
