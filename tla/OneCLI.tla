------------------------------- MODULE OneCLI -------------------------------
(***************************************************************************)
(* How secrets reach OneCLI, the proxy that injects them into requests:    *)
(* the mapping of a stored secret to OneCLI inputs (pkg/onecli/mapper.go), *)
(* the registry of secret services, and the provisioner that creates or    *)
(* updates them through the client.                                        *)
(*                                                                         *)
(* A stored secret is [name, type, hosts, path, header, envs] with its     *)
(* value apart; OneCLI's own store is a function from names to the         *)
(* [value, host, path, header] it injects.                                 *)
(***************************************************************************)
EXTENDS Naturals, Sequences, SequencesExt

CONSTANTS
  Services,    \* the secret services: type -> [patterns, path, header, envs]
  Segments,    \* the hyphen-separated segments of a secret's name
  Sanitized    \* the name segment a host pattern sanitizes to, "" if none

\* A name has at least one segment.
ASSUME ServicesAssumption ==
  /\ \A n \in DOMAIN Segments : Segments[n] \in Seq(STRING) \ {<<>>}
  /\ \A t \in DOMAIN Services : Services[t].patterns \in Seq(STRING)

TypeOther == "other"

Input(name, value, host, path, header) ==
  [name |-> name, value |-> value, host |-> host, path |-> path, header |-> header]

\* One input, named after the secret, for one host; one per host otherwise.
InputsFor(item, value, hosts, path, header) ==
  IF Len(hosts) = 1
  THEN <<Input(Segments[item.name], value, hosts[1], path, header)>>
  ELSE [i \in DOMAIN hosts |->
          Input(Append(Segments[item.name], Sanitized[hosts[i]]), value, hosts[i], path, header)]

\* Two hosts of one secret that give the same name are refused; two secrets
\* that do are not seen.
HostsFail(hosts) ==
  Len(hosts) > 1 /\ \/ \E i \in DOMAIN hosts : Sanitized[hosts[i]] = ""
                    \/ \E i, j \in DOMAIN hosts :
                         i # j /\ Sanitized[hosts[i]] = Sanitized[hosts[j]]

mapKnownSecretFails(item) ==
  \/ item.type \notin DOMAIN Services
  \/ Services[item.type].patterns = <<>>
  \/ HostsFail(Services[item.type].patterns)

mapKnownSecret(item, value) ==
  LET svc == Services[item.type]
  IN InputsFor(item, value, svc.patterns, svc.path, svc.header)

\* A secret without hosts is injected everywhere.
mapOtherSecret(item, value) ==
  InputsFor(item, value, IF item.hosts = <<>> THEN <<"*">> ELSE item.hosts, item.path, item.header)

MapFails(item) ==
  IF item.type = TypeOther THEN HostsFail(item.hosts) ELSE mapKnownSecretFails(item)

Map(item, value) ==
  IF item.type = TypeOther THEN mapOtherSecret(item, value) ELSE mapKnownSecret(item, value)

\* The environment variables that carry a placeholder for the secret.
PlaceholderEnvs(item) ==
  IF item.type = TypeOther THEN item.envs
  ELSE IF item.type \in DOMAIN Services THEN Services[item.type].envs ELSE {}

-----------------------------------------------------------------------------
(* The service, through the client.                                        *)

\* f with the value v for x.
Updated(f, x, v) == [y \in DOMAIN f \cup {x} |-> IF y = x THEN v ELSE f[y]]

\* Every answer from 400 on is an error, 204 has no body.
doFails(status) == status >= 400

\* POST /api/secrets: 409 when the name is taken.
CreateSecretStatus(db, input) == IF input.name \in DOMAIN db THEN 409 ELSE 201

CreateSecret(db, input) ==
  Updated(db, input.name, [value |-> input.value, host |-> input.host,
                           path |-> input.path, header |-> input.header])

\* PATCH: the value and the host always, the path and the header if given.
updateExisting(db, input) ==
  LET old == db[input.name]
  IN [db EXCEPT ![input.name] =
        [value |-> input.value, host |-> input.host,
         path |-> IF input.path # "" THEN input.path ELSE old.path,
         header |-> IF input.header # "" THEN input.header ELSE old.header]]

\* The service keeps the credentials of an app, of which there is one, apart
\* from the secrets: here under a name no secret has.
ConnectApp(db, app, value) ==
  Updated(db, <<>>, [value |-> value, host |-> app, path |-> "", header |-> ""])

\* Mutant: a secret that exists is left as it is.
ProvisionOne_keeps(db, input) ==
  IF ~doFails(CreateSecretStatus(db, input)) THEN CreateSecret(db, input) ELSE db

ProvisionOne(db, input) ==
  IF ~doFails(CreateSecretStatus(db, input)) THEN CreateSecret(db, input)
  ELSE updateExisting(db, input)

ProvisionSecrets(db, inputs) == FoldLeft(ProvisionOne, db, inputs)
=============================================================================
