------------------------------- MODULE Metadata -------------------------------
(***************************************************************************)
(* The metadata account of an organization (organization.rs): links and a  *)
(* description, each optional, that its creator writes once and overwrites *)
(* as a whole.  No other instruction reads it.                             *)
(***************************************************************************)
EXTENDS Organization

CONSTANTS
    Texts,                  \* argument records, by length: the longest link, the description
    MaxUrlLength,           \* bytes of one link (200)
    MaxDescriptionLength    \* bytes of the description (500)

ASSUME MetadataAssumption ==
    /\ Texts \subseteq [url : Nat, description : Nat]
    /\ MaxUrlLength \in Nat
    /\ MaxDescriptionLength \in Nat

VARIABLE metadata           \* metadata accounts, at the organization

FaultyValidTexts(texts) == texts.url <= MaxUrlLength   \* fault: the description is not checked

ValidTexts(texts) ==
    /\ texts.url <= MaxUrlLength
    /\ texts.description <= MaxDescriptionLength

InitializeOrganizationMetadata(creator, o, texts) ==
    /\ o \in DOMAIN organization
    /\ organization[o].creator = creator
    /\ o \notin DOMAIN metadata
    /\ ValidTexts(texts)
    /\ metadata' = StoreAccount(metadata, o, texts)
    /\ UNCHANGED orgVars

UpdateOrganizationMetadata(creator, o, texts) ==
    /\ o \in DOMAIN organization
    /\ organization[o].creator = creator
    /\ o \in DOMAIN metadata
    /\ ValidTexts(texts)
    /\ metadata' = [metadata EXCEPT ![o] = texts]
    /\ UNCHANGED orgVars

MetadataInit == metadata = EmptyMap

Describe ==
    \E creator \in Wallets, o \in Orgs, texts \in Texts :
        \/ InitializeOrganizationMetadata(creator, o, texts)
        \/ UpdateOrganizationMetadata(creator, o, texts)

MetadataTypeOK ==
    /\ DOMAIN metadata \subseteq DOMAIN organization
    /\ \A o \in DOMAIN metadata :
         /\ metadata[o] \in Texts
         /\ metadata[o].url <= MaxUrlLength /\ metadata[o].description <= MaxDescriptionLength
=============================================================================
