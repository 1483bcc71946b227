------------------------------ MODULE DomainNames ------------------------------
(* What the registry and the memory store of domains are both about, see       *)
(* src/internal/controlplane/domain/domain.go.                                  *)
CONSTANTS
    Ids,     \* registrations: the random ids tokenID gives
    Names,   \* domain names, normalised
    Tokens,  \* verification tokens
    NoName   \* the name of an id not given to a registration yet

ASSUME NoNameAssumption == NoName \notin Names
================================================================================
