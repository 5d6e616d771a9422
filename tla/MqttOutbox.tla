----------------------------- MODULE MqttOutbox -----------------------------
(***************************************************************************)
(* The outbox of the MQTT client: what still has to be transmitted or       *)
(* acknowledged, in the order it was enqueued. An item is named by its      *)
(* message identifier, which nothing keeps from being there twice.          *)
(***************************************************************************)
EXTENDS Naturals, SequencesExt

\* pending_state_t; CONFIRMED is never used.
Pending == {"QUEUED", "TRANSMITTED", "ACKNOWLEDGED"}

MsgType == {"PUBLISH", "SUBSCRIBE"}

\* The items that could be in an outbox, for sets of identifiers and of contents.
Items(Id, Body) ==
    [id : Id, type : MsgType, qos : 0 .. 2, pending : Pending, body : Body]

outbox_init == <<>>

outbox_enqueue(box, id, type, qos, body) ==
    Append(box, [id |-> id, type |-> type, qos |-> qos, pending |-> "QUEUED",
                 body |-> body])

\* The first item with a property, 0 if there is none.
FirstItem(box, Test(_)) == SelectInSeq(box, Test)

\* outbox_get looks at the identifier only, not at the type.
outbox_get(box, id) == FirstItem(box, LAMBDA e : e.id = id)

\* outbox_dequeue finds and does not remove.
outbox_dequeue(box, pending) == FirstItem(box, LAMBDA e : e.pending = pending)

outbox_delete_item(box, i) == RemoveAt(box, i)

outbox_delete(box, id, type) ==
    LET i == FirstItem(box, LAMBDA e : e.id = id /\ e.type = type)
    IN  IF i = 0 THEN box ELSE RemoveAt(box, i)

\* Whether outbox_delete returns ESP_OK.
Deletes(box, id, type) == \E i \in DOMAIN box : box[i].id = id /\ box[i].type = type

outbox_set_pending(box, id, pending) ==
    LET i == outbox_get(box, id)
    IN  IF i = 0 THEN box ELSE [box EXCEPT ![i].pending = pending]

\* The outbox without the items whose content is older than the limit.
outbox_delete_expired(box, old) ==
    LET kept[n \in 0 .. Len(box)] ==
            IF n = 0 THEN <<>>
            ELSE IF box[n].body \in old THEN kept[n - 1] ELSE Append(kept[n - 1], box[n])
    IN  kept[Len(box)]

outbox_delete_all_items(box) == <<>>

Bodies(box) == {box[i].body : i \in DOMAIN box}
=============================================================================
