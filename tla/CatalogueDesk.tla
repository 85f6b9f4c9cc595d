---------------------------- MODULE CatalogueDesk ----------------------------
(***************************************************************************)
(* One product of the catalogue and its variants.  A product may be active *)
(* only as a complete aggregate, which every handler checks before it      *)
(* writes.  No handler has a transaction: product, variants and write are  *)
(* separate, so several members of staff may interleave.                   *)
(***************************************************************************)
EXTENDS Integers, FiniteSets

CONSTANTS
  Variants,     \* variants that may be created
  Patches,      \* what updates of the product ask for
  MaxOpenEdits  \* bound on the requests under way

ASSUME CatalogueAssumption ==
  /\ "none" \notin Variants
  /\ Patches \subseteq [status : {"draft", "active", "archived", "keep"},
                        content : {"partial", "complete", "keep"}]

VARIABLES
  product,   \* the Product document
  variants,  \* variants[v]: what Variant document v holds
  editing    \* requests that have read and not written

catalogueVars == <<product, variants, editing>>

ProductStatus == {"draft", "active", "archived"}

(* What publication asks for is there, or some of it is missing: images of *)
(* a product; inspection, limitations, evidence or warranty of a variant.  *)
Content == {"partial", "complete"}

Product == [status : ProductStatus \cup {"absent"}, content : Content]
Shelf == [Variants -> Content \cup {"absent"}]

(* status and content are those the request asks for; own is the variant   *)
(* and seen the product as they were read.  others: what other requests    *)
(* wrote since, "images" when they replaced the images of the product.     *)
Edit ==
  [kind : {"product", "create", "update"}, variant : Variants \cup {"none"},
   status : ProductStatus \cup {"keep"}, content : Content \cup {"keep"},
   own : Content \cup {"absent"}, seen : Product,
   step : {"owner", "check", "save"}, others : {"nothing", "wrote", "images"}]

NoVariants == [v \in Variants |-> "absent"]

CatalogueInit ==
  /\ product = [status |-> "absent", content |-> "partial"]
  /\ variants = NoVariants
  /\ editing = {}

-----------------------------------------------------------------------------
(* validatePublicationCandidate, on the data the properties tell apart.    *)
Publishable(content, vs) ==
  /\ content = "complete"
  /\ \E v \in Variants : vs[v] # "absent"
  /\ \A v \in Variants : vs[v] # "partial"

Asked(new, old) == IF new = "keep" THEN old ELSE new

(* The aggregate as it will be when e is written.                          *)
CandidateVariants_Bug(e, vs) == vs
CandidateVariants(e, vs) ==
  IF e.kind = "product" THEN vs
  ELSE [vs EXCEPT ![e.variant] = Asked(e.content, e.own)]

CandidateStatus(e) ==
  IF e.kind = "product" THEN Asked(e.status, e.seen.status) ELSE e.seen.status

CandidateContent(e) ==
  IF e.kind = "product" THEN Asked(e.content, e.seen.content) ELSE e.seen.content

Goes(es, fs) == editing' = (editing \ es) \cup fs

-----------------------------------------------------------------------------
(* Reading                                                                 *)

(* createProduct: an active one is checked with no variants.               *)
CreateProduct(status, content) ==
  /\ product.status = "absent"
  /\ status = "active" => Publishable(content, NoVariants)
  /\ product' = [status |-> status, content |-> content]
  /\ UNCHANGED <<variants, editing>>

NewEdit(kind, v, status, content, step) ==
  [kind |-> kind, variant |-> v, status |-> status, content |-> content,
   own |-> IF v = "none" THEN "absent" ELSE variants[v], seen |-> product,
   step |-> step, others |-> "nothing"]

ProductFound_Bug == TRUE
ProductFound == product.status # "absent"

BeginUpdateProduct(patch) ==
  /\ ProductFound
  /\ Goes({}, {NewEdit("product", "none", patch.status, patch.content, "check")})
  /\ UNCHANGED <<product, variants>>

BeginCreateVariant(v, content) ==
  /\ ProductFound
  /\ variants[v] = "absent"
  /\ Goes({}, {NewEdit("create", v, "keep", content, "check")})
  /\ UNCHANGED <<product, variants>>

(* updateVariant reads the variant and then its product.                   *)
BeginUpdateVariant(v, content) ==
  /\ variants[v] # "absent"
  /\ Goes({}, {NewEdit("update", v, "keep", content, "owner")})
  /\ UNCHANGED <<product, variants>>

ReadOwner(e) ==
  /\ e.step = "owner"
  /\ Goes({e}, {[e EXCEPT !.seen = product, !.step = "check"]})
  /\ UNCHANGED <<product, variants>>

(* Only a candidate that is active is checked, with the variants as they   *)
(* are now.                                                                *)
CheckEdit(e) ==
  /\ e.step = "check"
  /\ CandidateStatus(e) = "active" =>
       Publishable(CandidateContent(e), CandidateVariants(e, variants))
  /\ Goes({e}, {[e EXCEPT !.step = "save"]})
  /\ UNCHANGED <<product, variants>>

(* 422, or a failure on the way.                                           *)
EndEdit(e) ==
  /\ Goes({e}, {})
  /\ UNCHANGED <<product, variants>>

-----------------------------------------------------------------------------
(* Writing: only what differs from what was read.                          *)

Replaces(e) == e.kind = "product" /\ e.content \notin {"keep", e.seen.content}

(* The other requests, when e has written.                                 *)
After(e) ==
  {[f EXCEPT !.others = IF Replaces(e) \/ @ = "images" THEN "images" ELSE "wrote"] :
     f \in editing \ {e}}

(* The list of images is replaced as a whole and its version compared.     *)
SaveProduct(e) ==
  /\ e.kind = "product" /\ e.step = "save"
  /\ Replaces(e) => e.others # "images"
  /\ product' =
       [status |-> IF e.status \in {"keep", e.seen.status} THEN product.status ELSE e.status,
        content |-> IF Replaces(e) THEN e.content ELSE product.content]
  /\ editing' = After(e)
  /\ UNCHANGED variants

SaveVariant(e) ==
  /\ e.kind \in {"create", "update"} /\ e.step = "save"
  /\ e.kind = "create" => variants[e.variant] = "absent"
  /\ variants' = IF e.content \in {"keep", e.own} THEN variants
                 ELSE [variants EXCEPT ![e.variant] = e.content]
  /\ editing' = After(e)
  /\ UNCHANGED product

(* deleteProduct: one update.                                              *)
ArchiveProduct ==
  /\ product.status # "absent"
  /\ product' = [product EXCEPT !.status = "archived"]
  /\ editing' = {[e EXCEPT !.others = IF @ = "images" THEN @ ELSE "wrote"] : e \in editing}
  /\ UNCHANGED variants

-----------------------------------------------------------------------------
CatalogueStep ==
  \/ \E status \in ProductStatus, content \in Content : CreateProduct(status, content)
  \/ /\ Cardinality(editing) < MaxOpenEdits
     /\ \/ \E patch \in Patches : BeginUpdateProduct(patch)
        \/ \E v \in Variants, content \in Content :
             BeginCreateVariant(v, content) \/ BeginUpdateVariant(v, content)
  \/ \E e \in editing :
       ReadOwner(e) \/ CheckEdit(e) \/ SaveProduct(e) \/ SaveVariant(e) \/ EndEdit(e)
  \/ ArchiveProduct

CatalogueSpec == CatalogueInit /\ [][CatalogueStep]_catalogueVars

-----------------------------------------------------------------------------
(* Properties                                                              *)

(* Documents and requests have the shapes Product, Variant and the         *)
(* handlers give them, and a variant has a product.                        *)
CatalogueTypeOK ==
  /\ product \in Product
  /\ variants \in Shelf
  /\ editing \subseteq Edit
  /\ product.status = "absent" => variants = NoVariants

(* README.md:273-278: "Every candidate transition to `active` is checked as*)
(* one aggregate", "A publishable product requires ... at least one image, *)
(* and at least one owned variant".  What is active is publishable.        *)
NothingMissing == product.status = "active" => Publishable(product.content, variants)

(* updateProduct, createVariant, updateVariant: a request during which no  *)
(* other one wrote never leaves an active product incomplete, whatever     *)
(* others had read before.  (Two that overlap can break NothingMissing.)   *)
PublicationIsChecked ==
  [][\A e \in editing :
       e.others = "nothing" /\ (SaveProduct(e) \/ SaveVariant(e)) /\ NothingMissing
         => NothingMissing']_catalogueVars
=============================================================================
